---- MODULE Spec2Model ----
(***************************************************************************)
(* The segregated free-list allocator of malloclab-handout/mm_segregated.c *)
(* as a state machine.  The heap is a sequence of 4-byte words (every      *)
(* address the allocator touches is word aligned); addresses are byte      *)
(* offsets from mem_heap_lo, and 0 is NULL.  Every public call is one      *)
(* atomic action, the allocator being single threaded.                     *)
(***************************************************************************)
EXTENDS Integers, Sequences, FiniteSets, TLC

VARIABLES mem, heap_listp, free_lists, eptr, mem_max_addr, fault, live, call, ncalls, trace,
          cache, threads, trans

vars == <<mem, heap_listp, free_lists, eptr, mem_max_addr, fault, live, call, ncalls, trace,
          cache, threads, trans>>

\* The proxy's cache (cache) with its client threads (threads) and the
\* matrix transpose (trans) are programs of their own: they are modelled
\* further below and stay at Unused while the allocator runs.
Unused == <<>>
others == <<cache, threads, trans>>

(***************************************************************************)
(* Bounds of the model.                                                    *)
(***************************************************************************)
\* bytes the growth primitive hands out before it fails (memlib's MAX_HEAP)
MaxHeap == 532
\* a heap limit too small for mm_init's five words
MinHeap == 16
\* public calls per behaviour
MaxOps == 4

\* requested sizes of malloc, of realloc, and the (nmemb, size) pairs of calloc
MallocSizes == {0, 5, 100, 240}
ReallocSizes == {0, 8, 130}
ReallocNullSizes == {0, 8}
CallocArgs == {<<0, 8>>, <<3, 2>>}

(***************************************************************************)
(* Constants and macros, mm_segregated.c lines 55-107.                     *)
(***************************************************************************)
WSIZE == 4
DSIZE == 8
MIN_SIZE == 24
LIST_END == 0
NUM_LISTS == 20
CHUNKSIZE == 256

\* the content of a word the growth primitive has handed out and nobody wrote
Uninit == -1

\* PACK(size, alloc): size | alloc, for alloc in {0, 1}
PACK(size, alloc) == IF size % 2 = 1 THEN size ELSE size + alloc

InHeap(h, p) == p >= 0 /\ p % WSIZE = 0 /\ (p \div WSIZE) < Len(h.mem)

\* GET(p): the word at address p; a word past the break is unwritten memory
GET(h, p) == IF InHeap(h, p) THEN h.mem[(p \div WSIZE) + 1] ELSE Uninit

\* PUT(p, val): a store outside the heap is a fault
PUT(h, p, val) ==
    IF InHeap(h, p) THEN [h EXCEPT !.mem[(p \div WSIZE) + 1] = val]
    ELSE [h EXCEPT !.fault = "segv"]

\* GET_SIZE(p): GET(p) & ~0x7
GET_SIZE(h, p) == GET(h, p) - (GET(h, p) % 8)

\* GET_ALLOC(p): GET(p) & 0x1
GET_ALLOC(h, p) == GET(h, p) % 2

HDRP(bp) == bp - 2 * WSIZE

FTRP(h, bp) == bp + GET_SIZE(h, HDRP(bp)) - 4 * WSIZE

NEXT_BLKP(h, bp) == bp + GET_SIZE(h, HDRP(bp))

PREV_BLKP(h, bp) == bp - GET_SIZE(h, bp - 4 * WSIZE)

\* the link word after the footer tag
PREV_PTR(h, bp) == FTRP(h, bp) + WSIZE

\* the link word after the header tag
NEXT_PTR(bp) == HDRP(bp) + WSIZE

GET_PREV_FREE(h, bp) ==
    IF GET(h, PREV_PTR(h, bp)) = 0 THEN 0 ELSE bp + GET(h, PREV_PTR(h, bp))

GET_NEXT_FREE(h, bp) ==
    IF GET(h, NEXT_PTR(bp)) = 0 THEN 0 ELSE bp + GET(h, NEXT_PTR(bp))

SET_PREV_FREE(h, bp, prev) == PUT(h, PREV_PTR(h, bp), prev - bp)

SET_NEXT_FREE(h, bp, next) == PUT(h, NEXT_PTR(bp), next - bp)

\* SPACE_LEFT(eptr): HDRP(eptr) is the footer tag of the last block
SPACE_LEFT(h) ==
    IF GET_ALLOC(h, HDRP(h.eptr)) = 1 THEN 0 ELSE GET_SIZE(h, HDRP(h.eptr))

(***************************************************************************)
(* The growth primitive (memlib's mem_sbrk): it fails on a negative        *)
(* increment or past the heap limit and has no partial effect; otherwise   *)
(* it returns the old break.  Every call is logged.                        *)
(***************************************************************************)
mem_sbrk(h, incr) ==
    LET brk == WSIZE * Len(h.mem)
        logged == [h EXCEPT !.log = Append(@, incr)]
    IN  IF incr < 0 \/ brk + incr > h.lim
        THEN [h |-> logged, ret |-> -1]
        ELSE [h |-> [logged EXCEPT !.mem = @ \o [i \in 1..(incr \div WSIZE) |-> Uninit]],
              ret |-> brk]

(***************************************************************************)
(* Helper routines, mm_segregated.c lines 346-392.  A size_t is 64 bits    *)
(* wide; the model holds a size_t value v below 2^31 as v and a value v    *)
(* of at least 2^64 - 2^31 as v - 2^64, so that sums and products of the   *)
(* model's integers are the sums and products modulo 2^64.                 *)
(***************************************************************************)
\* mutant: the per-block overhead is forgotten in the rounding
align_size_no_overhead(size) ==
    IF size <= DSIZE THEN MIN_SIZE
    ELSE DSIZE * ((size + (DSIZE - 1)) \div DSIZE)

\* size is a size_t, a number modulo 2^64: a negative size stands for
\* 2^64 + size, which is above DSIZE, and the sum wraps past 2^64 to
\* size + 23 when that is not negative
align_size(size) ==
    IF size >= 0 /\ size <= DSIZE THEN MIN_SIZE
    ELSE DSIZE * ((size + (2 * DSIZE) + (DSIZE - 1)) \div DSIZE)

Range(s) == {s[k] : k \in 1..Len(s)}

RECURSIVE ChainFrom(_, _, _)
\* the blocks met following next links from bp
ChainFrom(h, bp, fuel) ==
    IF bp = LIST_END \/ fuel = 0 THEN <<>>
    ELSE <<bp>> \o ChainFrom(h, GET_NEXT_FREE(h, bp), fuel - 1)

\* the members of bucket list, in list order
Bucket(h, list) == ChainFrom(h, h.fl[list], Len(h.mem))

Lists == 0..(NUM_LISTS - 1)

\* the member of a one-element set: Once({F(x) : x \in {e}}) is F(e), with
\* e evaluated once
Once(S) == CHOOSE x \in S : TRUE

\* the heap words and the bucket roots of h
Snap(h) == [mem |-> h.mem, fl |-> h.fl]

\* block bp is a member of some bucket list
Linked(h, bp) == \E list \in Lists : bp \in Range(Bucket(h, list))

set_size_tags(h, bp, asize) ==
    LET h1 == PUT(h, HDRP(bp), PACK(asize, 0))
    IN  PUT(h1, FTRP(h1, bp), PACK(asize, 0))

\* h.sized keeps, for every call of set_size, the block, the size given and
\* the heap it met
set_size_note(h, bp, asize) ==
    Once({[x EXCEPT !.sized = Append(@, [bp |-> bp, size |-> asize, pre |-> Snap(x)])] :
          x \in {h}})

set_size(h, bp, asize) ==
    Once({set_size_tags(y, bp, asize) : y \in {set_size_note(h, bp, asize)}})

\* x | 0x1
OrBit(x) == IF x % 2 = 1 THEN x ELSE x + 1

\* x & ~0x1
ClearBit(x) == x - (x % 2)

\* mutant: only the header tag is marked
set_alloc_header_only(h, bp) == PUT(h, HDRP(bp), OrBit(GET(h, HDRP(bp))))

set_alloc(h, bp) ==
    LET h1 == PUT(h, HDRP(bp), OrBit(GET(h, HDRP(bp))))
    IN  PUT(h1, FTRP(h1, bp), OrBit(GET(h1, FTRP(h1, bp))))

\* mutant: the footer tag keeps its allocated bit
set_free_header_only(h, bp) == PUT(h, HDRP(bp), ClearBit(GET(h, HDRP(bp))))

set_free(h, bp) ==
    LET h1 == PUT(h, HDRP(bp), ClearBit(GET(h, HDRP(bp))))
    IN  PUT(h1, FTRP(h1, bp), ClearBit(GET(h1, FTRP(h1, bp))))

RECURSIVE get_list_unclamped(_, _)
\* mutant: the loop does not stop at the last list
get_list_unclamped(list, size) ==
    IF size > 0
    THEN get_list_unclamped(list + 1, size \div 2)
    ELSE list

RECURSIVE get_list_loop(_, _)
get_list_loop(list, size) ==
    IF list < NUM_LISTS - 1 /\ size > 0
    THEN get_list_loop(list + 1, size \div 2)
    ELSE list

get_list(size) == get_list_loop(0, size)

(***************************************************************************)
(* Free-list engine, mm_segregated.c lines 435-482.                        *)
(***************************************************************************)
\* mutant: the new head keeps its link back to the block removed
delete_block_stale_back_link(h, bp) ==
    LET prev == GET_PREV_FREE(h, bp)
        next == GET_NEXT_FREE(h, bp)
        list == get_list(GET_SIZE(h, HDRP(bp)))
    IN  IF prev = LIST_END /\ next = LIST_END
        THEN [h EXCEPT !.fl[list] = 0]
        ELSE IF prev = LIST_END
        THEN [h EXCEPT !.fl[list] = next]
        ELSE IF next = LIST_END
        THEN SET_NEXT_FREE(h, prev, prev)
        ELSE SET_PREV_FREE(SET_NEXT_FREE(h, prev, next), next, prev)

delete_block_links(h, bp) ==
    LET prev == GET_PREV_FREE(h, bp)
        next == GET_NEXT_FREE(h, bp)
        list == get_list(GET_SIZE(h, HDRP(bp)))
    IN  IF prev = LIST_END /\ next = LIST_END
        THEN [h EXCEPT !.fl[list] = 0]
        ELSE IF prev = LIST_END
        THEN [SET_PREV_FREE(h, next, next) EXCEPT !.fl[list] = next]
        ELSE IF next = LIST_END
        THEN SET_NEXT_FREE(h, prev, prev)
        ELSE SET_PREV_FREE(SET_NEXT_FREE(h, prev, next), next, prev)

\* what delete_block(bp) meets: the block and the heap on entry
Deletion(h, bp) ==
    [bp |-> bp, pre |-> Snap(h)]

\* h.dels keeps that for every call of delete_block
delete_block_note(h, bp) ==
    Once({[x EXCEPT !.dels = Append(@, Deletion(x, bp))] : x \in {h}})

delete_block(h, bp) ==
    Once({delete_block_links(y, bp) : y \in {delete_block_note(h, bp)}})

\* mutant: the former head is linked forward to the new block as well
add_block_ring(h, bp) ==
    LET list == get_list(GET_SIZE(h, HDRP(bp)))
        h1 == IF h.fl[list] # 0
              THEN SET_PREV_FREE(
                       SET_NEXT_FREE(SET_NEXT_FREE(h, h.fl[list], bp), bp, h.fl[list]),
                       bp, bp)
              ELSE SET_NEXT_FREE(SET_PREV_FREE(h, bp, bp), bp, bp)
    IN  [h1 EXCEPT !.fl[list] = bp]

add_block_links(h, bp) ==
    LET list == get_list(GET_SIZE(h, HDRP(bp)))
        h1 == IF h.fl[list] # 0
              THEN SET_PREV_FREE(
                       SET_NEXT_FREE(SET_PREV_FREE(h, h.fl[list], bp), bp, h.fl[list]),
                       bp, bp)
              ELSE SET_NEXT_FREE(SET_PREV_FREE(h, bp, bp), bp, bp)
    IN  [h1 EXCEPT !.fl[list] = bp]

\* what add_block(bp) has done when it returns with heap h1: the block, the
\* heap on entry and the heap on return
Addition(h, bp, h1) ==
    [bp |-> bp, pre |-> Snap(h), post |-> Snap(h1)]

\* h.adds keeps that for every call of add_block
add_block_note(h, bp, h1) ==
    Once({[y EXCEPT !.adds = Append(@, Addition(h, bp, y))] : y \in {h1}})

\* mutant: the block is filed in the bucket below its size class
add_block_wrong_list(h, bp) ==
    LET list == get_list(GET_SIZE(h, HDRP(bp))) - 1
        h1 == IF h.fl[list] # 0
              THEN SET_PREV_FREE(
                       SET_NEXT_FREE(SET_PREV_FREE(h, h.fl[list], bp), bp, h.fl[list]),
                       bp, bp)
              ELSE SET_NEXT_FREE(SET_PREV_FREE(h, bp, bp), bp, bp)
    IN  [h1 EXCEPT !.fl[list] = bp]

add_block(h, bp) ==
    Once({add_block_note(x, bp, add_block_links(x, bp)) : x \in {h}})

(***************************************************************************)
(* coalesce, mm_segregated.c lines 490-526.                                *)
(***************************************************************************)
\* mutant: a free successor is merged without being taken off its list
coalesce_keep_next(h, bp) ==
    LET prev == PREV_BLKP(h, bp)
        next == NEXT_BLKP(h, bp)
        prev_alloc == GET_ALLOC(h, HDRP(prev))
        next_alloc == GET_ALLOC(h, HDRP(next))
        size == GET_SIZE(h, HDRP(bp))
    IN  IF prev_alloc = 1 /\ next_alloc = 1
        THEN [h |-> add_block(h, bp), ret |-> bp]
        ELSE IF prev_alloc = 1 /\ next_alloc = 0
        THEN [h |-> add_block(set_size(h, bp, size + GET_SIZE(h, HDRP(next))), bp),
              ret |-> bp]
        ELSE IF prev_alloc = 0 /\ next_alloc = 1
        THEN LET h1 == delete_block(h, prev)
                 sz == size + GET_SIZE(h1, HDRP(prev))
             IN  [h |-> add_block(set_size(h1, prev, sz), prev), ret |-> prev]
        ELSE LET h1 == delete_block(h, prev)
                 sz == size + GET_SIZE(h1, HDRP(prev)) + GET_SIZE(h1, HDRP(next))
             IN  [h |-> add_block(set_size(h1, prev, sz), prev), ret |-> prev]

\* mutant: a free successor is not merged
coalesce_no_next(h, bp) ==
    LET prev == PREV_BLKP(h, bp)
        prev_alloc == GET_ALLOC(h, HDRP(prev))
        size == GET_SIZE(h, HDRP(bp))
    IN  IF prev_alloc = 1
        THEN [h |-> add_block(h, bp), ret |-> bp]
        ELSE LET h1 == delete_block(h, prev)
                 sz == size + GET_SIZE(h1, HDRP(prev))
             IN  [h |-> add_block(set_size(h1, prev, sz), prev), ret |-> prev]

\* the heap after the deletions is h1 in each case
coalesce(h, bp) ==
    LET prev == PREV_BLKP(h, bp)
        next == NEXT_BLKP(h, bp)
        prev_alloc == GET_ALLOC(h, HDRP(prev))
        next_alloc == GET_ALLOC(h, HDRP(next))
        size == GET_SIZE(h, HDRP(bp))
    IN  IF prev_alloc = 1 /\ next_alloc = 1
        THEN [h |-> add_block(h, bp), ret |-> bp]
        ELSE IF prev_alloc = 1 /\ next_alloc = 0
        THEN Once({[h |-> add_block(set_size(h1, bp, size + GET_SIZE(h1, HDRP(next))), bp),
                    ret |-> bp] :
                   h1 \in {delete_block(h, next)}})
        ELSE IF prev_alloc = 0 /\ next_alloc = 1
        THEN Once({[h |-> add_block(set_size(h1, prev, size + GET_SIZE(h1, HDRP(prev))),
                                    prev),
                    ret |-> prev] :
                   h1 \in {delete_block(h, prev)}})
        ELSE Once({[h |-> add_block(set_size(h1, prev, size + GET_SIZE(h1, HDRP(prev))
                                                       + GET_SIZE(h1, HDRP(next))),
                                    prev),
                    ret |-> prev] :
                   h1 \in {delete_block(delete_block(h, next), prev)}})

(***************************************************************************)
(* split, mm_segregated.c lines 320-339.                                   *)
(***************************************************************************)
\* h1 is the heap once bp has its new size, and split_block is NEXT_BLKP(bp)
split_blocks(h, bp, asize) ==
    LET original_size == GET_SIZE(h, HDRP(bp))
    IN  IF original_size >= asize + MIN_SIZE
        THEN Once({[h |-> add_block(set_size(h1, NEXT_BLKP(h1, bp), original_size - asize),
                                    NEXT_BLKP(h1, bp)),
                    ret |-> bp] :
                   h1 \in {set_size(delete_block(h, bp), bp, asize)}})
        ELSE [h |-> delete_block(h, bp), ret |-> bp]

\* what split(bp, asize) met in heap h and has left in heap h1
Splitting(h, bp, asize, h1) ==
    [bp |-> bp, asize |-> asize, pre |-> Snap(h), post |-> Snap(h1)]

\* h.splits keeps that for every call of split
split_note(h, bp, asize, r) ==
    Once({[h |-> [y.h EXCEPT !.splits = Append(@, Splitting(h, bp, asize, y.h))],
           ret |-> y.ret] : y \in {r}})

\* mutant: the size is updated while the block is still linked
split_size_before_delete(h, bp, asize) ==
    LET original_size == GET_SIZE(h, HDRP(bp))
    IN  IF original_size >= asize + MIN_SIZE
        THEN LET h1 == delete_block(set_size(h, bp, asize), bp)
                 split_block == NEXT_BLKP(h1, bp)
                 h2 == set_size(h1, split_block, original_size - asize)
             IN  [h |-> add_block(h2, split_block), ret |-> bp]
        ELSE [h |-> delete_block(h, bp), ret |-> bp]

split(h, bp, asize) ==
    Once({split_note(x, bp, asize, split_blocks(x, bp, asize)) : x \in {h}})

(***************************************************************************)
(* search_list, mm_segregated.c lines 297-313.  The outer loop runs while  *)
(* list < NUM_LISTS+1 and its last statement is bp = free_lists[list++]:   *)
(* the first bucket is scanned twice, and the last pass reads              *)
(* free_lists[NUM_LISTS], one past the table.  That value is assigned to   *)
(* bp and never used, the loop condition failing next; h.oob records the   *)
(* read.                                                                   *)
(***************************************************************************)
\* mutant: only the head of a bucket is examined
search_scan_head(h, bp, asize, fuel) ==
    IF bp = LIST_END THEN LIST_END
    ELSE IF GET_SIZE(h, HDRP(bp)) >= asize THEN bp
    ELSE LIST_END

RECURSIVE search_scan_strict(_, _, _, _)
\* mutant: a block of exactly asize bytes is passed over
search_scan_strict(h, bp, asize, fuel) ==
    IF bp = LIST_END THEN LIST_END
    ELSE IF fuel = 0 THEN -1
    ELSE IF GET_SIZE(h, HDRP(bp)) > asize THEN bp
    ELSE search_scan_strict(h, GET_NEXT_FREE(h, bp), asize, fuel - 1)

RECURSIVE search_scan(_, _, _, _)
\* the inner while: the first block of the chain from bp of size >= asize,
\* LIST_END when the chain ends, -1 when the chain does not end
search_scan(h, bp, asize, fuel) ==
    IF bp = LIST_END THEN LIST_END
    ELSE IF fuel = 0 THEN -1
    ELSE IF GET_SIZE(h, HDRP(bp)) >= asize THEN bp
    ELSE search_scan(h, GET_NEXT_FREE(h, bp), asize, fuel - 1)

\* free_lists[i]; an index outside the table reads the neighbouring static
free_lists_at(h, i) == IF i \in 0..(NUM_LISTS - 1) THEN h.fl[i] ELSE h.eptr

\* mutant: the search does not go on to the larger buckets
search_loop_first_bucket(h, list, bp, asize) ==
    LET hit == search_scan(h, bp, asize, Len(h.mem))
    IN  IF hit = -1 THEN [h |-> [h EXCEPT !.fault = "hang"], ret |-> 0]
        ELSE IF hit # LIST_END THEN [h |-> h, ret |-> hit]
        ELSE [h |-> h, ret |-> 0]

RECURSIVE search_loop(_, _, _, _)
search_loop(h, list, bp, asize) ==
    IF list < NUM_LISTS + 1
    THEN LET hit == search_scan(h, bp, asize, Len(h.mem))
         IN  IF hit = -1 THEN [h |-> [h EXCEPT !.fault = "hang"], ret |-> 0]
             ELSE IF hit # LIST_END THEN [h |-> h, ret |-> hit]
             ELSE search_loop([h EXCEPT !.oob = @ \/ list \notin 0..(NUM_LISTS - 1)],
                              list + 1, free_lists_at(h, list), asize)
    ELSE [h |-> h, ret |-> 0]

\* line 306: the block the loops stop at is split and returned
search_hit(r, asize) == IF r.ret = 0 THEN r ELSE split(r.h, r.ret, asize)

search_list(h, asize) ==
    Once({search_hit(r, asize) :
          r \in {search_loop(h, get_list(asize), h.fl[get_list(asize)], asize)}})

(***************************************************************************)
(* extend_heap, mm_segregated.c lines 403-427.  asize - space_left is      *)
(* size_t arithmetic: a negative difference is a huge unsigned number,     *)
(* not below CHUNKSIZE, and a negative int for mem_sbrk.                   *)
(***************************************************************************)
\* mutant: the epilogue pointer is not advanced
extend_heap_stamp_stale_eptr(h, bp, size) ==
    LET h1 == set_size(h, bp, size)
    IN  PUT(h1, HDRP(NEXT_BLKP(h1, bp)), PACK(0, 1))

\* mutant: no epilogue header is written at the new end
extend_heap_stamp_no_epilogue(h, bp, size) ==
    LET h1 == set_size(h, bp, size)
    IN  [h1 EXCEPT !.eptr = @ + GET_SIZE(h1, HDRP(bp))]

\* lines 415-422, once mem_sbrk has returned the old break
extend_heap_stamp(h, bp, size) ==
    LET h1 == set_size(h, bp, size)
        h2 == PUT(h1, HDRP(NEXT_BLKP(h1, bp)), PACK(0, 1))
    IN  [h2 EXCEPT !.eptr = @ + GET_SIZE(h2, HDRP(bp))]

extend_heap_place(c, asize) == split(c.h, c.ret, asize)

\* mutant: the growth primitive's failure is not looked at
extend_heap_grow_unchecked(r, size, asize) ==
    extend_heap_place(
        coalesce(extend_heap_stamp(r.h, r.ret + WSIZE, size), r.ret + WSIZE),
        asize)

extend_heap_grow(r, size, asize) ==
    IF r.ret = -1 THEN [h |-> r.h, ret |-> 0]
    ELSE extend_heap_place(
             coalesce(extend_heap_stamp(r.h, r.ret + WSIZE, size), r.ret + WSIZE),
             asize)

\* mutant: the free space at the end of the heap is not deducted
extend_heap_size_whole(h, size0, asize) ==
    IF asize < CHUNKSIZE
    THEN extend_heap_grow(mem_sbrk(h, CHUNKSIZE), CHUNKSIZE, asize)
    ELSE extend_heap_grow(mem_sbrk(h, asize), asize, asize)

extend_heap_size(h, size0, asize) ==
    IF size0 >= 0 /\ size0 < CHUNKSIZE
    THEN extend_heap_grow(mem_sbrk(h, CHUNKSIZE), CHUNKSIZE, asize)
    ELSE extend_heap_grow(mem_sbrk(h, size0), size0, asize)

extend_heap(h, asize) ==
    IF h.eptr = 0 THEN [h |-> [h EXCEPT !.fault = "segv"], ret |-> 0]
    ELSE extend_heap_size(h, asize - SPACE_LEFT(h), asize)

(***************************************************************************)
(* mm_init, mm_segregated.c lines 142-164.                                 *)
(***************************************************************************)
\* mutant: the prologue's footer tag is not written
mm_init_no_footer(h) ==
    LET r == mem_sbrk(h, 5 * WSIZE)
    IN  IF r.ret = -1 THEN [h |-> [r.h EXCEPT !.hl = -1], ret |-> -1]
        ELSE LET h0 == [r.h EXCEPT !.hl = r.ret,
                                   !.fl = [list \in 0..(NUM_LISTS - 1) |-> 0]]
                 h1 == PUT(h0, h0.hl, PACK(4 * WSIZE, 1))
                 h2 == PUT(h1, h0.hl + (1 * WSIZE), 0)
                 h4 == PUT(h2, h0.hl + (3 * WSIZE), 0)
                 h5 == PUT(h4, h0.hl + (4 * WSIZE), PACK(0, 1))
             IN  [h |-> [h5 EXCEPT !.hl = h0.hl + (2 * WSIZE),
                                   !.eptr = h0.hl + (2 * WSIZE) + (2 * WSIZE)],
                  ret |-> 0]

mm_init(h) ==
    LET r == mem_sbrk(h, 5 * WSIZE)
    IN  IF r.ret = -1 THEN [h |-> [r.h EXCEPT !.hl = -1], ret |-> -1]
        ELSE LET h0 == [r.h EXCEPT !.hl = r.ret,
                                   !.fl = [list \in 0..(NUM_LISTS - 1) |-> 0]]
                 h1 == PUT(h0, h0.hl, PACK(4 * WSIZE, 1))
                 h2 == PUT(h1, h0.hl + (1 * WSIZE), 0)
                 h3 == PUT(h2, h0.hl + (2 * WSIZE), PACK(4 * WSIZE, 1))
                 h4 == PUT(h3, h0.hl + (3 * WSIZE), 0)
                 h5 == PUT(h4, h0.hl + (4 * WSIZE), PACK(0, 1))
             IN  [h |-> [h5 EXCEPT !.hl = h0.hl + (2 * WSIZE),
                                   !.eptr = h0.hl + (2 * WSIZE) + (2 * WSIZE)],
                  ret |-> 0]

(***************************************************************************)
(* malloc and free, mm_segregated.c lines 169-210.                         *)
(***************************************************************************)
\* lines 192-193
malloc_place(r) ==
    IF r.ret = 0 \/ r.h.fault # "none" THEN [h |-> r.h, ret |-> 0]
    ELSE [h |-> set_alloc(r.h, r.ret), ret |-> r.ret]

\* lines 186-189
malloc_found(s, asize) ==
    IF s.h.fault # "none" THEN [h |-> s.h, ret |-> 0]
    ELSE IF s.ret # 0 THEN malloc_place(s)
    ELSE malloc_place(extend_heap(s.h, asize))

\* mutant: without the early return for a request of 0 bytes
malloc_size_no_zero_check(h, size) ==
    malloc_found(search_list(h, align_size(size)), align_size(size))

\* lines 177-183
malloc_size(h, size) ==
    IF size = 0 THEN [h |-> h, ret |-> 0]
    ELSE malloc_found(search_list(h, align_size(size)), align_size(size))

malloc(h, size) ==
    IF h.hl = 0 THEN malloc_size(mm_init(h).h, size) ELSE malloc_size(h, size)

\* lines 208-209
free_block(h, bp) == coalesce(set_free(h, bp), bp).h

free(h, bp) ==
    IF bp = 0 THEN h
    ELSE IF h.hl = 0 THEN free_block(mm_init(h).h, bp)
    ELSE free_block(h, bp)

(***************************************************************************)
(* The C library's memset and memcpy on the word heap (little endian: the  *)
(* first bytes of a word are its low-order bytes).                         *)
(***************************************************************************)
Pow256(k) == IF k = 0 THEN 1 ELSE IF k = 1 THEN 256 ELSE IF k = 2 THEN 65536 ELSE 16777216

\* word old with its first k bytes (k < 4) replaced by those of word new
MergeBytes(old, new, k) == (old - (old % Pow256(k))) + (new % Pow256(k))

\* memset(p, 0, n) for a word-aligned p
\* (a negative n stands for 2^64 + n bytes, more than any heap holds)
memset0(h, p, n) ==
    IF n = 0 THEN h
    ELSE IF p = 0 \/ n < 0 THEN [h EXCEPT !.fault = "segv"]
    ELSE LET first == (p \div WSIZE) + 1
             full == n \div WSIZE
             rest == n % WSIZE
         IN  [h EXCEPT !.mem = [j \in 1..Len(h.mem) |->
                 IF j >= first /\ j < first + full THEN 0
                 ELSE IF rest > 0 /\ j = first + full THEN MergeBytes(h.mem[j], 0, rest)
                 ELSE h.mem[j]]]

\* the word that ends in word i of the destination when words k-1, k-2,
\* ..., 0 are copied one after the other, highest first, and the source
\* lies d words above the destination: word i is read from a place that, for
\* d > 0 and i + d < k, was written before, with what ends in word i + d
copied_from(i, d, k) ==
    IF d > 0 /\ i + d < k THEN i + d * ((k - 1 - i) \div d) ELSE i

\* words k-1, k-2, ..., 0 copied one after the other, highest first
copy_down(h, dst, src, k) ==
    LET first == (dst \div WSIZE) + 1
        d == (src - dst) \div WSIZE
    IN  IF first + k - 1 > Len(h.mem) THEN [h EXCEPT !.fault = "segv"]
        ELSE [h EXCEPT !.mem = [j \in 1..Len(h.mem) |->
                IF j >= first /\ j < first + k
                THEN GET(h, src + WSIZE * copied_from(j - first, d, k))
                ELSE h.mem[j]]]

\* memcpy(dst, src, n), n a multiple of the word size.  Overlapping ranges
\* are undefined behaviour for memcpy: dir chooses between the two copy
\* orders a C library uses, ascending ("up") and descending ("down");
\* without overlap the order makes no difference.
memcpy_words(h, dst, src, n, dir) ==
    IF n = 0 THEN h
    ELSE IF dst = 0 \/ src = 0 THEN [h EXCEPT !.fault = "segv"]
    ELSE IF dir = "down" /\ dst < src /\ src < dst + n
    THEN copy_down(h, dst, src, n \div WSIZE)
    ELSE IF dst < src \/ dst >= src + n
    THEN LET first == (dst \div WSIZE) + 1
             k == n \div WSIZE
         IN  IF first + k - 1 > Len(h.mem) THEN [h EXCEPT !.fault = "segv"]
             ELSE [h EXCEPT !.mem = [j \in 1..Len(h.mem) |->
                     IF j >= first /\ j < first + k
                     THEN GET(h, src + WSIZE * (j - first))
                     ELSE h.mem[j]]]
    ELSE copy_down(h, dst, src, n \div WSIZE)

\* the call memcpy(dst, src, n); h.copies keeps the arguments of the calls
memcpy(h, dst, src, n, dir) ==
    Once({memcpy_words(x, dst, src, n, dir) :
          x \in {[h EXCEPT !.copies = Append(@, [dst |-> dst, src |-> src, n |-> n])]}})

(***************************************************************************)
(* calloc, mm_segregated.c lines 216-222.                                  *)
(***************************************************************************)
calloc_zero(m, asize) ==
    IF m.h.fault # "none" THEN [h |-> m.h, ret |-> 0]
    ELSE [h |-> memset0(m.h, m.ret, asize), ret |-> m.ret]

calloc(h, nmemb, size) == calloc_zero(malloc(h, nmemb * size), nmemb * size)

(***************************************************************************)
(* realloc, mm_segregated.c lines 230-288.                                 *)
(***************************************************************************)
\* lines 252-253 and 278-279
realloc_place(s) == [h |-> set_alloc(s.h, s.ret), ret |-> s.ret]

\* mutant: the block is handed back whole, no tail is cut off
realloc_shrink_no_split(h, ptr, newsize) == [h |-> h, ret |-> ptr]

\* lines 249-251
realloc_shrink(h, ptr, newsize) ==
    realloc_place(split(add_block(set_free(h, ptr), ptr), ptr, newsize))

\* lines 273-277
realloc_move(c, ptr, oldsize, newsize, dir) ==
    IF c.ret # ptr
    THEN realloc_place(split(memcpy(c.h, c.ret, ptr, oldsize, dir), c.ret, newsize))
    ELSE realloc_place(split(c.h, c.ret, newsize))

\* lines 283-285
realloc_copied(h1, ptr, newptr) ==
    IF h1.fault # "none" THEN [h |-> h1, ret |-> 0]
    ELSE [h |-> free(h1, ptr), ret |-> newptr]

realloc_fallback(m, ptr, oldsize, dir) ==
    IF m.h.fault # "none" THEN [h |-> m.h, ret |-> 0]
    ELSE realloc_copied(memcpy(m.h, m.ret, ptr, oldsize, dir), ptr, m.ret)

\* lines 256-286
realloc_grow(h, ptr, oldsize, newsize, dir) ==
    LET prev == PREV_BLKP(h, ptr)
        next == NEXT_BLKP(h, ptr)
        prev_alloc == GET_ALLOC(h, HDRP(prev))
        next_alloc == GET_ALLOC(h, HDRP(next))
        prev_size == GET_SIZE(h, HDRP(prev))
        next_size == GET_SIZE(h, HDRP(next))
        diff == newsize - oldsize
    IN  IF \/ (prev_alloc = 0 /\ prev_size >= diff)
           \/ (next_alloc = 0 /\ next_size >= diff)
           \/ (next_alloc = 0 /\ prev_alloc = 0 /\ (prev_size + next_size) >= diff)
        THEN realloc_move(coalesce(h, ptr), ptr, oldsize, newsize, dir)
        ELSE realloc_fallback(malloc(h, newsize), ptr, oldsize, dir)

realloc_sized(h, ptr, oldsize, newsize, dir) ==
    IF newsize <= oldsize THEN realloc_shrink(h, ptr, newsize)
    ELSE realloc_grow(h, ptr, oldsize, newsize, dir)

\* mutant: a request of 0 bytes is treated as a shrinking request
realloc_keep_on_zero(h, ptr, size, dir) ==
    IF ptr = 0 THEN malloc(h, size)
    ELSE realloc_sized(h, ptr, GET_SIZE(h, HDRP(ptr)), align_size(size), dir)

realloc(h, ptr, size, dir) ==
    IF size = 0 THEN [h |-> free(h, ptr), ret |-> 0]
    ELSE IF ptr = 0 THEN malloc(h, size)
    ELSE realloc_sized(h, ptr, GET_SIZE(h, HDRP(ptr)), align_size(size), dir)

(***************************************************************************)
(* mm_checkheap, mm_segregated.c lines 544-729: the error checks of lines  *)
(* 577-621 (the printed report changes no state).  error_flags is kept as  *)
(* the number the code keeps; st is the loop's local state.  mem_heap_lo   *)
(* is address 0 and mem_heap_hi the address of the heap's last byte.       *)
(***************************************************************************)
ERROR_CHECK == 1

\* flags | bit, for bit a power of two
OrFlag(flags, bit) == IF (flags \div bit) % 2 = 1 THEN flags ELSE flags + bit

\* lines 606-611: num_tail[list_num]++ > 1 compares the count before the
\* increment
check_tail(h, st, bp, list_num) ==
    IF GET_NEXT_FREE(h, bp) = 0
    THEN [st EXCEPT !.num_tail[list_num] = @ + 1,
                    !.error_flags = IF st.num_tail[list_num] > 1 THEN OrFlag(@, 2) ELSE @]
    ELSE IF GET_PREV_FREE(h, GET_NEXT_FREE(h, bp)) # bp
    THEN [st EXCEPT !.error_flags = OrFlag(@, 4)]
    ELSE st

\* lines 612-617
check_head(h, st, bp, list_num) ==
    IF GET_PREV_FREE(h, bp) = 0
    THEN [st EXCEPT !.num_head[list_num] = @ + 1,
                    !.error_flags = IF st.num_head[list_num] > 1 THEN OrFlag(@, 8) ELSE @]
    ELSE IF GET_NEXT_FREE(h, GET_PREV_FREE(h, bp)) # bp
    THEN [st EXCEPT !.error_flags = OrFlag(@, 4)]
    ELSE st

\* lines 598-602
check_token(st) ==
    [st EXCEPT !.free_token = @ + 1,
               !.error_flags = IF st.free_token + 1 > 1 THEN OrFlag(@, 128) ELSE @]

\* lines 598-620
check_links(h, st, bp) ==
    IF GET_ALLOC(h, HDRP(bp)) = 0
    THEN check_head(h, check_tail(h, check_token(st), bp, get_list(GET_SIZE(h, HDRP(bp)))),
                    bp, get_list(GET_SIZE(h, HDRP(bp))))
    ELSE [st EXCEPT !.free_token = 0]

\* lines 586-596
check_tags(h, st, bp) ==
    [st EXCEPT !.error_flags =
        LET f1 == IF GET_SIZE(h, HDRP(bp)) % DSIZE # 0 THEN OrFlag(@, 1) ELSE @
            f2 == IF bp % DSIZE # 0 THEN OrFlag(f1, 64) ELSE f1
            f3 == IF GET(h, HDRP(bp)) # GET(h, FTRP(h, bp)) THEN OrFlag(f2, 16) ELSE f2
            f4 == IF bp < 0 \/ bp + GET_SIZE(h, HDRP(bp)) - DSIZE > WSIZE * Len(h.mem) - 1
                  THEN OrFlag(f3, 32) ELSE f3
        IN  IF bp = h.hl /\ (GET_SIZE(h, HDRP(bp)) # 2 * DSIZE \/ GET_ALLOC(h, HDRP(bp)) = 0)
            THEN OrFlag(f4, 256) ELSE f4]

RECURSIVE check_loop(_, _, _, _)
\* line 585: for (bp = heap_listp; GET_SIZE(HDRP(bp)) > 0; bp = NEXT_BLKP(bp))
check_loop(h, st, bp, fuel) ==
    IF fuel = 0 \/ GET_SIZE(h, HDRP(bp)) <= 0 THEN st
    ELSE check_loop(h, check_links(h, check_tags(h, st, bp), bp),
                    NEXT_BLKP(h, bp), fuel - 1)

\* lines 580-582: high - 3 is the address of the heap's last word
check_epilogue(h) ==
    IF \/ GET_SIZE(h, WSIZE * Len(h.mem) - WSIZE) # 0
       \/ GET_ALLOC(h, WSIZE * Len(h.mem) - WSIZE) = 0
       \/ WSIZE * Len(h.mem) - WSIZE # h.eptr
    THEN 512 ELSE 0

\* the error_flags the checks end with
mm_checkheap(h) ==
    IF ERROR_CHECK = 1
    THEN check_loop(h, [error_flags |-> check_epilogue(h), free_token |-> 0,
                        num_head |-> [list \in 0..(NUM_LISTS - 1) |-> 0],
                        num_tail |-> [list \in 0..(NUM_LISTS - 1) |-> 0]],
                    h.hl, Len(h.mem)).error_flags
    ELSE 0

(***************************************************************************)
(* The state machine.  mem is the heap the growth primitive has handed     *)
(* out; heap_listp, free_lists and eptr are the allocator's globals        *)
(* (lines 120-122); live lists the client's allocations with the sizes it  *)
(* asked for; call records the last call, its result, the growth           *)
(* primitive's increments during it and whether it read past free_lists;   *)
(* trace is the call history that the scenario specifications keep.        *)
(***************************************************************************)
H == [mem |-> mem, fl |-> free_lists, eptr |-> eptr, hl |-> heap_listp,
      lim |-> mem_max_addr, log |-> <<>>, oob |-> FALSE, fault |-> fault,
      copies |-> <<>>, dels |-> <<>>, sized |-> <<>>,
     adds |-> <<>>, splits |-> <<>>]

Commit(h) ==
    /\ mem' = h.mem
    /\ free_lists' = h.fl
    /\ eptr' = h.eptr
    /\ heap_listp' = h.hl
    /\ fault' = h.fault
    /\ UNCHANGED <<mem_max_addr, others>>

Call(op, ptr, nmemb, size, ret, h) ==
    [op |-> op, ptr |-> ptr, nmemb |-> nmemb, size |-> size, ret |-> ret,
     log |-> h.log, oob |-> h.oob, copies |-> h.copies, dels |-> h.dels,
     sized |-> h.sized, adds |-> h.adds, splits |-> h.splits]

Record(c) ==
    /\ call' = c
    /\ ncalls' = ncalls + 1

Remove(s, i) == [j \in 1..(Len(s) - 1) |-> IF j < i THEN s[j] ELSE s[j + 1]]

\* the client may call once mm_init has succeeded and nothing has faulted
Ready == heap_listp > 0 /\ fault = "none" /\ ncalls < MaxOps

Init ==
    /\ mem = <<>>
    /\ heap_listp = 0
    /\ free_lists = [list \in 0..(NUM_LISTS - 1) |-> 0]
    /\ eptr = 0
    /\ mem_max_addr \in {MinHeap, MaxHeap}
    /\ fault = "none"
    /\ live = <<>>
    /\ call = [op |-> "none", ptr |-> 0, nmemb |-> 0, size |-> 0, ret |-> 0,
               log |-> <<>>, oob |-> FALSE, copies |-> <<>>, dels |-> <<>>, sized |-> <<>>,
     adds |-> <<>>, splits |-> <<>>]
    /\ ncalls = 0
    /\ trace = <<>>
    /\ cache = Unused
    /\ threads = Unused
    /\ trans = Unused

MmInitDone(r) ==
    /\ Commit(r.h)
    /\ call' = Call("mm_init", 0, 0, 0, r.ret, r.h)

MmInit ==
    /\ heap_listp = 0
    /\ MmInitDone(mm_init(H))
    /\ UNCHANGED <<live, ncalls, trace>>

\* the call op(ptr, nmemb, size) returned r.ret in heap r.h; a non-null
\* result is the client's allocation of n bytes
Allocated(op, ptr, nmemb, size, n, r) ==
    /\ Commit(r.h)
    /\ Record(Call(op, ptr, nmemb, size, r.ret, r.h))
    /\ live' = IF r.ret # 0 THEN Append(live, [ptr |-> r.ret, size |-> n]) ELSE live

Malloc(n) ==
    /\ Ready
    /\ Allocated("malloc", 0, 0, n, n, malloc(H, n))
    /\ UNCHANGED trace

Freed(ptr, h) ==
    /\ Commit(h)
    /\ Record(Call("free", ptr, 0, 0, 0, h))

Free(i) ==
    /\ Ready
    /\ Freed(live[i].ptr, free(H, live[i].ptr))
    /\ live' = Remove(live, i)
    /\ UNCHANGED trace

FreeNull ==
    /\ Ready
    /\ Freed(0, free(H, 0))
    /\ UNCHANGED <<live, trace>>

Calloc(nmemb, size) ==
    /\ Ready
    /\ Allocated("calloc", 0, nmemb, size, nmemb * size, calloc(H, nmemb, size))
    /\ UNCHANGED trace

Reallocated(i, n, r) ==
    /\ Commit(r.h)
    /\ Record(Call("realloc", live[i].ptr, 0, n, r.ret, r.h))
    /\ live' = IF n = 0 THEN Remove(live, i)
               ELSE IF r.ret # 0 THEN [live EXCEPT ![i] = [ptr |-> r.ret, size |-> n]]
               ELSE live

\* realloc passes overlapping ranges to memcpy only when it has merged the
\* block with a free predecessor: only then is the copy order a choice
CopyOrders(i) ==
    IF GET_ALLOC(H, HDRP(PREV_BLKP(H, live[i].ptr))) = 0 THEN {"up", "down"} ELSE {"up"}

Realloc(i, n, dir) ==
    /\ Ready
    /\ Reallocated(i, n, realloc(H, live[i].ptr, n, dir))
    /\ UNCHANGED trace

ReallocNull(n) ==
    /\ Ready
    /\ Allocated("realloc", 0, 0, n, n, realloc(H, 0, n, "up"))
    /\ UNCHANGED trace

(***************************************************************************)
(* The client may fill the bytes it asked for when malloc or calloc hands  *)
(* them out: byte k of the allocation at p gets a value that depends on p  *)
(* and on k's word.                                                        *)
(***************************************************************************)
Pattern(p, w) == 16777216 + 256 * p + w

Filled(m, p, n) ==
    LET first == (p \div WSIZE) + 1
        full == n \div WSIZE
        rest == n % WSIZE
    IN  [j \in 1..Len(m) |->
            IF j >= first /\ j < first + full THEN Pattern(p, j - first)
            ELSE IF rest > 0 /\ j = first + full
            THEN MergeBytes(m[j], Pattern(p, j - first), rest)
            ELSE m[j]]

Write(i) ==
    /\ heap_listp > 0
    /\ fault = "none"
    /\ call.op \in {"malloc", "calloc"}
    /\ call.ret = live[i].ptr
    /\ mem' = Filled(mem, live[i].ptr, live[i].size)
    /\ mem' # mem
    /\ call' = [call EXCEPT !.op = "write", !.ptr = live[i].ptr]
    /\ UNCHANGED <<heap_listp, free_lists, eptr, mem_max_addr, fault, live, ncalls, trace, others>>

Next ==
    \/ MmInit
    \/ \E n \in MallocSizes : Malloc(n)
    \/ \E i \in 1..Len(live) : Free(i)
    \/ FreeNull
    \/ \E a \in CallocArgs : Calloc(a[1], a[2])
    \/ \E i \in 1..Len(live), n \in ReallocSizes : \E dir \in CopyOrders(i) : Realloc(i, n, dir)
    \/ \E n \in ReallocNullSizes : ReallocNull(n)
    \/ \E i \in 1..Len(live) : Write(i)

Spec == Init /\ [][Next]_vars

\* requests at the top of size_t's range: -k stands for 2^64 - k
WideSizes == {-1, -8}
WideCallocArgs == {<<-1, -8>>, <<-1, 2>>}

\* malloc and free calls, with malloc and calloc calls whose size
\* arithmetic wraps among them
NextN ==
    \/ MmInit
    \/ \E n \in MallocSizes \cup WideSizes : Malloc(n)
    \/ \E i \in 1..Len(live) : Free(i)
    \/ \E a \in WideCallocArgs : Calloc(a[1], a[2])

SpecN == Init /\ [][NextN]_vars

(***************************************************************************)
(* mm_checkheap on heaps whose free-list links may be inconsistent: a      *)
(* prologue, three 24-byte blocks at 24, 48 and 72 and the epilogue, each  *)
(* block free or allocated and each link word empty or the offset to one   *)
(* of the other two blocks.  mm_checkheap does not read free_lists; the    *)
(* bucket of the 24-byte blocks starts at the first free block that has    *)
(* no previous link.                                                       *)
(***************************************************************************)
HeapBlocks == 0..2

\* the block pointer of block i
BlockAt(i) == 4 * WSIZE + 2 * WSIZE + MIN_SIZE * i

\* the link words block i may hold
LinkWords(i) == {0} \cup {BlockAt(j) - BlockAt(i) : j \in HeapBlocks \ {i}}

Links ==
    {f \in [HeapBlocks -> {MIN_SIZE * d : d \in (0 - 2)..2}] :
        \A i \in HeapBlocks : f[i] \in LinkWords(i)}

\* the six words of a 24-byte block: tag, next link, payload, tag, prev link
BlockWords(alloc, next, prev) ==
    <<PACK(MIN_SIZE, alloc), next, Uninit, Uninit, PACK(MIN_SIZE, alloc), prev>>

HeapOf(a, nx, pv) ==
    <<PACK(4 * WSIZE, 1), 0, PACK(4 * WSIZE, 1), 0>>
    \o BlockWords(a[0], nx[0], pv[0])
    \o BlockWords(a[1], nx[1], pv[1])
    \o BlockWords(a[2], nx[2], pv[2])
    \o <<PACK(0, 1)>>

\* the lowest free block without a previous link, LIST_END if there is none
FirstHead(a, pv) ==
    IF \E i \in HeapBlocks : a[i] = 0 /\ pv[i] = 0
    THEN BlockAt(CHOOSE i \in HeapBlocks :
                    /\ a[i] = 0 /\ pv[i] = 0
                    /\ \A j \in HeapBlocks : (a[j] = 0 /\ pv[j] = 0) => i <= j)
    ELSE LIST_END

InitCH ==
    /\ \E a \in [HeapBlocks -> {0, 1}], nx \in Links, pv \in Links :
          /\ mem = HeapOf(a, nx, pv)
          /\ free_lists = [list \in 0..(NUM_LISTS - 1) |->
                              IF list = get_list(MIN_SIZE) THEN FirstHead(a, pv) ELSE 0]
    /\ heap_listp = 2 * WSIZE
    /\ eptr = WSIZE * Len(mem) - WSIZE
    /\ mem_max_addr = MaxHeap
    /\ fault = "none"
    /\ live = <<>>
    /\ call = [op |-> "none", ptr |-> 0, nmemb |-> 0, size |-> 0, ret |-> 0,
               log |-> <<>>, oob |-> FALSE, copies |-> <<>>, dels |-> <<>>, sized |-> <<>>,
     adds |-> <<>>, splits |-> <<>>]
    /\ ncalls = 0
    /\ trace = <<>>
    /\ cache = Unused
    /\ threads = Unused
    /\ trans = Unused

\* mm_checkheap is called: call.ret holds error_flags, and the program
\* exits when a flag is set (lines 694-727)
CheckHeap ==
    /\ heap_listp > 0
    /\ fault = "none"
    /\ call.op # "mm_checkheap"
    /\ call' = [op |-> "mm_checkheap", ptr |-> 0, nmemb |-> 0, size |-> 0,
                ret |-> mm_checkheap(H), log |-> <<>>, oob |-> FALSE,
                copies |-> <<>>, dels |-> <<>>, sized |-> <<>>,
     adds |-> <<>>, splits |-> <<>>]
    /\ fault' = IF mm_checkheap(H) # 0 THEN "exit" ELSE "none"
    /\ UNCHANGED <<mem, heap_listp, free_lists, eptr, mem_max_addr, live, ncalls, trace, others>>

NextCH == CheckHeap

SpecCH == InitCH /\ [][NextCH]_vars

\* the calls of malloc and free alone
NextMF ==
    \/ MmInit
    \/ \E n \in MallocSizes : Malloc(n)
    \/ \E i \in 1..Len(live) : Free(i)
    \/ FreeNull
    \/ \E i \in 1..Len(live) : Write(i)

SpecMF == Init /\ [][NextMF]_vars

(***************************************************************************)
(* What a scan of the heap and of the bucket lists sees in a heap h.       *)
(***************************************************************************)
RECURSIVE WalkFrom(_, _, _)
\* the block pointers from bp on, stepping by block size, up to the first
\* header of size 0 (the loop of mm_checkheap, lines 585 and 627)
WalkFrom(h, bp, fuel) ==
    IF fuel = 0 \/ ~InHeap(h, HDRP(bp)) \/ GET_SIZE(h, HDRP(bp)) <= 0 THEN <<>>
    ELSE <<bp>> \o WalkFrom(h, NEXT_BLKP(h, bp), fuel - 1)

RECURSIVE WalkEnd(_, _, _)
\* the block pointer at which that walk stops
WalkEnd(h, bp, fuel) ==
    IF fuel = 0 \/ ~InHeap(h, HDRP(bp)) \/ GET_SIZE(h, HDRP(bp)) <= 0 THEN bp
    ELSE WalkEnd(h, NEXT_BLKP(h, bp), fuel - 1)

\* every block from the prologue on, and the blocks between the sentinels
AllBlocks(h) == WalkFrom(h, h.hl, Len(h.mem))
Blocks(h) == Range(Tail(AllBlocks(h)))
FreeBlocks(h) == {b \in Blocks(h) : GET_ALLOC(h, HDRP(b)) = 0}

\* how often block b occurs in the bucket lists
Occurrences(h, b) ==
    Cardinality(UNION {{<<list, k>> : k \in {k \in 1..Len(Bucket(h, list)) :
                                                Bucket(h, list)[k] = b}} :
                       list \in Lists})

NoAdjacentFree(h) ==
    \A b \in Blocks(h) :
        GET_ALLOC(h, HDRP(b)) = 0 => GET_ALLOC(h, HDRP(NEXT_BLKP(h, b))) = 1

\* the allocator is initialised and no call has faulted
Serving == heap_listp > 0 /\ fault = "none"

(***************************************************************************)
(* C1: after mm_init and any malloc/free calls, every pointer p that       *)
(* malloc(n) returned and that is still live is the payload of an          *)
(* allocated block whose capacity GET_SIZE(HDRP(p)) - 16 is at least n;    *)
(* the ranges [p, p+n) of the live allocations are pairwise disjoint and   *)
(* disjoint from the header (tag and link word) and the footer (tag and    *)
(* link word) of every block, the sentinels' included.                     *)
(***************************************************************************)
Disjoint(a1, e1, a2, e2) == e1 <= a2 \/ e2 <= a1

PayloadSafe(h, p, n) ==
    /\ p \in Blocks(h)
    /\ GET_ALLOC(h, HDRP(p)) = 1
    /\ GET_SIZE(h, HDRP(p)) - 4 * WSIZE >= n
    /\ \A b \in Range(AllBlocks(h)) :
          /\ Disjoint(p, p + n, HDRP(b), b)
          /\ Disjoint(p, p + n, FTRP(h, b), FTRP(h, b) + 2 * WSIZE)
    /\ Disjoint(p, p + n, h.eptr, h.eptr + WSIZE)

C3_EagerCoalescingRealloc ==
    (Serving /\ call.op \in {"realloc", "free"}) => NoAdjacentFree(H)

NoOpCall ==
    /\ ncalls' = ncalls + 1
    /\ \/ call'.op = "malloc" /\ call'.size = 0
       \/ call'.op = "free" /\ call'.ptr = 0

C7_NoOpCalls ==
    [][NoOpCall =>
          /\ call'.ret = 0
          /\ fault' = "none"
          /\ mem' = mem
          /\ eptr' = eptr
          /\ free_lists' = free_lists
          /\ heap_listp' = heap_listp
          /\ call'.log = <<>>]_vars

\* malloc(0) has returned on a heap that holds a live allocation and a
\* free block filed in a bucket
C7_Witness ==
    /\ Serving
    /\ call.op = "malloc" /\ call.size = 0 /\ call.ret = 0
    /\ Len(live) >= 1
    /\ \E list \in Lists : free_lists[list] # 0

(***************************************************************************)
(* C8: for a live block p obtained with requested size N and any n > N, a  *)
(* realloc(p, n) that returns a non-null q leaves the first N bytes at q   *)
(* equal to the first N bytes that were at p before the call.              *)
(***************************************************************************)
Word(m, p) == m[(p \div WSIZE) + 1]

\* the first n bytes at p in m1 equal the first n bytes at q in m2
SameBytes(m1, p, m2, q, n) ==
    /\ \A k \in 0..((n \div WSIZE) - 1) :
          Word(m1, p + WSIZE * k) = Word(m2, q + WSIZE * k)
    /\ n % WSIZE > 0 =>
          Word(m1, p + WSIZE * (n \div WSIZE)) % Pow256(n % WSIZE)
              = Word(m2, q + WSIZE * (n \div WSIZE)) % Pow256(n % WSIZE)

C8_ReallocKeepsData ==
    [][\A i \in 1..Len(live) :
          (/\ ncalls' = ncalls + 1
           /\ call'.op = "realloc"
           /\ call'.ptr = live[i].ptr
           /\ call'.size > live[i].size
           /\ call'.ret # 0)
          => SameBytes(mem, live[i].ptr, mem', call'.ret, live[i].size)]_vars

(***************************************************************************)
(* C9: free(b) on a live block b leaves a free block that starts at b's    *)
(* physical predecessor if that was free (else at b), ends at the end of   *)
(* b's physical successor if that was free (else at b's end), has the sum  *)
(* of the merged sizes as its size, is a member of bucket                  *)
(* get_list(merged size), and is the only bucket member inside its extent  *)
(* (the absorbed neighbours are members no more).                          *)
(***************************************************************************)
PrevFree(h, b) == GET_ALLOC(h, HDRP(PREV_BLKP(h, b))) = 0
NextFree(h, b) == GET_ALLOC(h, HDRP(NEXT_BLKP(h, b))) = 0
MergedStart(h, b) == IF PrevFree(h, b) THEN PREV_BLKP(h, b) ELSE b
MergedEnd(h, b) ==
    IF NextFree(h, b) THEN NEXT_BLKP(h, NEXT_BLKP(h, b)) ELSE NEXT_BLKP(h, b)
MergedSize(h, b) ==
    GET_SIZE(h, HDRP(b))
    + (IF PrevFree(h, b) THEN GET_SIZE(h, HDRP(PREV_BLKP(h, b))) ELSE 0)
    + (IF NextFree(h, b) THEN GET_SIZE(h, HDRP(NEXT_BLKP(h, b))) ELSE 0)

FreedInto(pre, post, b) ==
    /\ MergedStart(pre, b) \in FreeBlocks(post)
    /\ GET_SIZE(post, HDRP(MergedStart(pre, b))) = MergedSize(pre, b)
    /\ NEXT_BLKP(post, MergedStart(pre, b)) = MergedEnd(pre, b)
    /\ Occurrences(post, MergedStart(pre, b)) = 1
    /\ MergedStart(pre, b) \in Range(Bucket(post, get_list(MergedSize(pre, b))))
    /\ \A list \in Lists : \A x \in Range(Bucket(post, list)) :
          (MergedStart(pre, b) <= x /\ x < MergedEnd(pre, b)) => x = MergedStart(pre, b)

ScenMax == 600

ScenMalloc1(n) ==
    /\ Len(trace) = 0 /\ ncalls = 0
    /\ Ready
    /\ Allocated("malloc", 0, 0, n, n, malloc(H, n))
    /\ trace' = <<call'>>

ScenFree ==
    /\ Len(trace) = 1
    /\ Ready
    /\ Freed(trace[1].ret, free(H, trace[1].ret))
    /\ live' = <<>>
    /\ trace' = Append(trace, call')

ScenMalloc2 ==
    /\ Len(trace) = 2
    /\ Ready
    /\ Allocated("malloc", 0, 0, trace[1].size, trace[1].size, malloc(H, trace[1].size))
    /\ trace' = Append(trace, call')

NextA ==
    \/ MmInit
    \/ \E n \in 1..ScenMax : ScenMalloc1(n)
    \/ ScenFree
    \/ ScenMalloc2

SpecA == Init /\ [][NextA]_vars

ScenarioADone ==
    /\ Len(trace) = 3
    /\ trace[1].op = "malloc" /\ trace[1].size > 0
    /\ trace[2].op = "free" /\ trace[2].ptr = trace[1].ret
    /\ trace[3].op = "malloc" /\ trace[3].size = trace[1].size

(***************************************************************************)
(* C10, as claimed: from a fresh heap, for any n > 0, X = malloc(n);       *)
(* free(X); malloc(n) returns X and the second malloc does not call the    *)
(* growth primitive.                                                       *)
(***************************************************************************)
C10_Original ==
    ScenarioADone => (trace[3].ret = trace[1].ret /\ trace[3].log = <<>>)

(***************************************************************************)
(* C10, amended: the same for any n > 0 whose first malloc succeeds (X is  *)
(* not NULL).                                                              *)
(***************************************************************************)
C10_ReuseAfterFree ==
    (ScenarioADone /\ trace[1].ret # 0)
        => (trace[3].ret = trace[1].ret /\ trace[3].log = <<>>)

\* the scenario has run for a request larger than the minimum growth chunk
C10_Witness ==
    /\ ScenarioADone
    /\ trace[1].ret # 0
    /\ trace[1].size > CHUNKSIZE
    /\ trace[3].ret = trace[1].ret

(***************************************************************************)
(* C11: for a live block p of size S and a request n > 0 with              *)
(* a = align_size(n) <= S, realloc(p, n) returns p and leaves the payload  *)
(* words of the resulting block as they were; if S - a >= 24 the block's   *)
(* size becomes a and a free block of size S - a at p + a is a member of   *)
(* its bucket, otherwise the block keeps size S; p is allocated on return. *)
(***************************************************************************)
ShrunkInPlace(pre, post, p, a) ==
    LET S == GET_SIZE(pre, HDRP(p))
    IN  /\ post.fault = "none"
        /\ GET_ALLOC(post, HDRP(p)) = 1
        /\ GET(post, FTRP(post, p)) = GET(post, HDRP(p))
        /\ \A k \in 0..((GET_SIZE(post, HDRP(p)) - 4 * WSIZE) \div WSIZE - 1) :
              GET(post, p + WSIZE * k) = GET(pre, p + WSIZE * k)
        /\ IF S - a >= MIN_SIZE
           THEN /\ GET_SIZE(post, HDRP(p)) = a
                /\ (p + a) \in FreeBlocks(post)
                /\ GET_SIZE(post, HDRP(p + a)) = S - a
                /\ (p + a) \in Range(Bucket(post, get_list(S - a)))
           ELSE GET_SIZE(post, HDRP(p)) = S

C11_KeptWhole ==
    /\ Serving
    /\ call.op = "realloc" /\ call.ptr # 0 /\ call.size > 0
    /\ call.ret = call.ptr
    /\ GET_SIZE(H, HDRP(call.ret)) > align_size(call.size)

(***************************************************************************)
(* C12: realloc(p, 0), for p NULL or live, returns NULL and leaves the     *)
(* allocator state that free(p) leaves; realloc(NULL, n) with n > 0        *)
(* returns what malloc(n) returns and leaves the allocator state that      *)
(* malloc(n) leaves.                                                       *)
(***************************************************************************)
SameAllocatorState(a, b) ==
    /\ a.mem = b.mem
    /\ a.fl = b.fl
    /\ a.eptr = b.eptr
    /\ a.hl = b.hl
    /\ a.fault = b.fault

C12_ReallocDegenerate ==
    [][(ncalls' = ncalls + 1 /\ call'.op = "realloc")
       => /\ call'.size = 0
             => /\ call'.ret = 0
                /\ SameAllocatorState(H', free(H, call'.ptr))
          /\ (call'.ptr = 0 /\ call'.size > 0)
             => /\ call'.ret = malloc(H, call'.size).ret
                /\ SameAllocatorState(H', malloc(H, call'.size).h)
                /\ call'.log = malloc(H, call'.size).h.log]_vars

\* realloc(p, 0) has returned for a live p that had a free neighbour: the
\* block is gone from the heap scan or is free
C12_Witness ==
    /\ Serving
    /\ call.op = "realloc" /\ call.ptr # 0 /\ call.size = 0 /\ call.ret = 0
    /\ \A i \in 1..Len(live) : live[i].ptr # call.ptr
    /\ \E b \in FreeBlocks(H) :
          b <= call.ptr /\ call.ptr < NEXT_BLKP(H, b) /\ GET_SIZE(H, HDRP(b)) > MIN_SIZE

\* realloc(NULL, n) with n > 0 has returned a block
C12_AsMalloc ==
    /\ Serving
    /\ call.op = "realloc" /\ call.ptr = 0 /\ call.size > 0 /\ call.ret # 0

(***************************************************************************)
(* C13: on an initialised allocator, when the growth primitive fails       *)
(* during malloc(n), malloc returns NULL without a fault and the heap      *)
(* words, the heap extent, eptr, heap_listp and every bucket head are as   *)
(* before the call.                                                        *)
(***************************************************************************)
\* the growth primitive refuses incr in the current state
SbrkFails(incr) == incr < 0 \/ WSIZE * Len(mem) + incr > mem_max_addr

C13_MallocFailureIsLocal ==
    [][(/\ ncalls' = ncalls + 1
        /\ call'.op = "malloc"
        /\ call'.log # <<>>
        /\ SbrkFails(call'.log[Len(call'.log)]))
       => (/\ call'.ret = 0
           /\ fault' = "none"
           /\ mem' = mem
           /\ eptr' = eptr
           /\ heap_listp' = heap_listp
           /\ free_lists' = free_lists)]_vars

\* a malloc has failed in the growth primitive on a heap that holds two
\* live allocations and a free block too small for the request
C13_Witness ==
    /\ Serving
    /\ call.op = "malloc" /\ call.size > 0 /\ call.ret = 0
    /\ call.log # <<>>
    /\ Len(live) >= 2
    /\ FreeBlocks(H) # {}

(***************************************************************************)
(* C14: when realloc(p, n) cannot grow p in place and the growth primitive *)
(* fails while the new block is obtained, realloc returns NULL without a   *)
(* copy to or through a null address (no fault), and block p stays         *)
(* allocated with its size and its words unchanged.                        *)
(***************************************************************************)
BlockUntouched(pre, post, p) ==
    /\ GET(post, HDRP(p)) = GET(pre, HDRP(p))
    /\ GET_ALLOC(post, HDRP(p)) = 1
    /\ \A k \in 0..((GET_SIZE(pre, HDRP(p)) - 4 * WSIZE) \div WSIZE - 1) :
          GET(post, p + WSIZE * k) = GET(pre, p + WSIZE * k)
    /\ GET(post, FTRP(post, p)) = GET(pre, FTRP(pre, p))

C14_ReallocFailureIsLocal ==
    [][(/\ ncalls' = ncalls + 1
        /\ call'.op = "realloc"
        /\ call'.ptr # 0
        /\ call'.size > 0
        /\ call'.log # <<>>
        /\ SbrkFails(call'.log[Len(call'.log)]))
       => (/\ call'.ret = 0
           /\ fault' = "none"
           /\ BlockUntouched(H, H', call'.ptr))]_vars

(***************************************************************************)
(* C15: calloc(count, size) returns NULL, without a write through the null *)
(* pointer (no fault), when the malloc of count*size > 0 bytes fails in    *)
(* the growth primitive; when it returns a block, the first count*size     *)
(* bytes of the block are zero.                                            *)
(***************************************************************************)
\* the first n bytes at p are zero
ZeroBytes(m, p, n) ==
    /\ \A k \in 0..((n \div WSIZE) - 1) : Word(m, p + WSIZE * k) = 0
    /\ n % WSIZE > 0 => Word(m, p + WSIZE * (n \div WSIZE)) % Pow256(n % WSIZE) = 0

C15_ZeroFilled ==
    [][(ncalls' = ncalls + 1 /\ call'.op = "calloc" /\ call'.ret # 0)
       => ZeroBytes(mem', call'.ret, call'.nmemb * call'.size)]_vars

C15_CallocContract ==
    [][(ncalls' = ncalls + 1 /\ call'.op = "calloc")
       => /\ (/\ call'.nmemb * call'.size > 0
              /\ call'.log # <<>>
              /\ SbrkFails(call'.log[Len(call'.log)]))
             => (call'.ret = 0 /\ fault' = "none")
          /\ call'.ret # 0
             => ZeroBytes(mem', call'.ret, call'.nmemb * call'.size)]_vars

(***************************************************************************)
(* C16: calloc(count, size) whose product count*size does not fit in       *)
(* size_t returns NULL (without a fault) instead of allocating and zeroing *)
(* a block sized for the wrapped product.                                  *)
(***************************************************************************)
\* the product of two size_t values does not fit in 64 bits: a negative
\* number stands for a value of at least 2^64 - 2^31, the others are
\* below 2^31
Overflows(nmemb, size) ==
    \/ nmemb < 0 /\ size < 0
    \/ nmemb < 0 /\ size >= 2
    \/ size < 0 /\ nmemb >= 2

C16_CallocOverflow ==
    [][(/\ ncalls' = ncalls + 1
        /\ call'.op = "calloc"
        /\ Overflows(call'.nmemb, call'.size))
       => (call'.ret = 0 /\ fault' = "none")]_vars

\* calloc has returned a block for a product that wrapped to 8
C16_WrappedBlock ==
    /\ fault = "none"
    /\ call.op = "calloc" /\ Overflows(call.nmemb, call.size)
    /\ call.ret # 0
    /\ call.nmemb * call.size = 8
    /\ GET_SIZE(H, HDRP(call.ret)) = MIN_SIZE

(***************************************************************************)
(* C17: malloc(n) for n so large that n + 16 + 7 wraps in size_t returns   *)
(* NULL rather than a block whose recorded size is smaller than n + 16.    *)
(***************************************************************************)
\* n + 23 wraps: n is one of the 23 largest size_t values
Wraps(n) == n < 0 /\ n + (2 * DSIZE) + (DSIZE - 1) >= 0

C17_MallocOverflow ==
    [][(ncalls' = ncalls + 1 /\ call'.op = "malloc" /\ Wraps(call'.size))
       => call'.ret = 0]_vars

\* malloc has returned a block of recorded size 8 for a request of
\* 2^64 - 8 bytes
C17_TinyBlock ==
    /\ call.op = "malloc" /\ call.size = -8
    /\ call.ret # 0
    /\ GET_SIZE(H, HDRP(call.ret)) = DSIZE

(***************************************************************************)
(* C18: whenever a malloc extends the heap by g bytes, extend_heap stamps  *)
(* the word at the old epilogue address as the header of a free block of   *)
(* size g, writes an epilogue header (size 0, allocated) at the old        *)
(* epilogue address + g and advances eptr by g; when malloc returns, eptr  *)
(* addresses that epilogue in the last word of the heap and the old        *)
(* epilogue word is an epilogue no more.                                   *)
(***************************************************************************)
\* the heap as extend_heap leaves it before it coalesces, lines 413-422
Stamped(h, g) == extend_heap_stamp(mem_sbrk(h, g).h, h.eptr + 2 * WSIZE, g)

ExtendedBy(pre, post, g) ==
    /\ GET(Stamped(pre, g), pre.eptr) = PACK(g, 0)
    /\ GET(Stamped(pre, g), FTRP(Stamped(pre, g), pre.eptr + 2 * WSIZE)) = PACK(g, 0)
    /\ GET(Stamped(pre, g), pre.eptr + g) = PACK(0, 1)
    /\ Stamped(pre, g).eptr = pre.eptr + g
    /\ post.eptr = pre.eptr + g
    /\ GET(post, post.eptr) = PACK(0, 1)
    /\ Len(post.mem) = Len(pre.mem) + (g \div WSIZE)
    /\ post.eptr = WSIZE * Len(post.mem) - WSIZE
    /\ GET_SIZE(post, pre.eptr) > 0

C18_ExtensionStamps ==
    [][(/\ ncalls' = ncalls + 1
        /\ call'.op = "malloc"
        /\ call'.log # <<>>
        /\ ~SbrkFails(call'.log[1]))
       => ExtendedBy(H, H', call'.log[1])]_vars

\* a malloc has extended a heap that already held blocks and ended in a
\* free block, which took the new space in
C18_Witness ==
    /\ Serving
    /\ call.op = "malloc" /\ call.ret # 0
    /\ call.log # <<>>
    /\ WSIZE * Len(mem) = 5 * WSIZE + 2 * CHUNKSIZE
    /\ GET_SIZE(H, HDRP(call.ret)) > CHUNKSIZE - MIN_SIZE
    /\ call.ret + GET_SIZE(H, HDRP(call.ret)) > 4 * WSIZE + CHUNKSIZE + 2 * WSIZE
    /\ call.ret < 4 * WSIZE + CHUNKSIZE

(***************************************************************************)
(* C19: mm_init returns -1 when the growth primitive fails; otherwise it   *)
(* returns 0 and leaves all 20 bucket heads empty, a 16-byte allocated     *)
(* prologue whose header tag equals its footer tag, a size-0 allocated     *)
(* epilogue header immediately after the prologue, and eptr addressing     *)
(* that epilogue header.                                                   *)
(***************************************************************************)
Initialised(post) ==
    /\ post.fault = "none"
    /\ \A list \in Lists : post.fl[list] = 0
    /\ GET(post, HDRP(post.hl)) = PACK(4 * WSIZE, 1)
    /\ GET(post, FTRP(post, post.hl)) = GET(post, HDRP(post.hl))
    /\ HDRP(NEXT_BLKP(post, post.hl)) = post.eptr
    /\ GET(post, post.eptr) = PACK(0, 1)
    /\ post.eptr = WSIZE * Len(post.mem) - WSIZE

\* what mm_init returns and leaves when called in heap h
InitContract(h, r) ==
    IF WSIZE * Len(h.mem) + 5 * WSIZE > h.lim
    THEN r.ret = -1
    ELSE r.ret = 0 /\ Initialised(r.h)

\* the first call of mm_init, and a further call of mm_init in any state
\* the allocator has reached (buckets filled, heap in use)
C19_MmInit ==
    [][/\ (call.op = "none" /\ call'.op = "mm_init")
          => IF SbrkFails(5 * WSIZE)
             THEN call'.ret = -1
             ELSE call'.ret = 0 /\ Initialised(H')
       /\ (ncalls' = ncalls + 1 /\ fault' = "none")
          => InitContract(H', mm_init(H'))]_vars

\* mm_init has returned 0 on a heap of five words
C19_Witness ==
    /\ call.op = "mm_init" /\ call.ret = 0
    /\ Len(mem) = 5
    /\ heap_listp = 2 * WSIZE

\* mm_init has returned -1, the growth primitive having failed
C19_Failed ==
    /\ call.op = "mm_init" /\ call.ret = -1
    /\ call.log = <<5 * WSIZE>>
    /\ mem = <<>>

(***************************************************************************)
(* C20: mm_checkheap sets the 'more than one list head' flag (bit 4,       *)
(* value 8), respectively the 'more than one list tail' flag (bit 2,       *)
(* value 2), and so reports and exits, whenever some bucket contains more  *)
(* than one free block whose previous link, respectively next link, is     *)
(* the list-end marker.                                                    *)
(***************************************************************************)
HasFlag(flags, bit) == (flags \div bit) % 2 = 1

\* the free blocks of the heap scan whose size belongs to bucket list
InBucket(h, list) == {b \in FreeBlocks(h) : get_list(GET_SIZE(h, HDRP(b))) = list}

Heads(h, list) == {b \in InBucket(h, list) : GET_PREV_FREE(h, b) = LIST_END}
Tails(h, list) == {b \in InBucket(h, list) : GET_NEXT_FREE(h, b) = LIST_END}

C20_CheckheapHeadsTails ==
    call.op = "mm_checkheap" =>
        /\ (\E list \in Lists : Cardinality(Heads(H, list)) > 1)
              => (HasFlag(call.ret, 8) /\ fault = "exit")
        /\ (\E list \in Lists : Cardinality(Tails(H, list)) > 1)
              => (HasFlag(call.ret, 2) /\ fault = "exit")

\* mm_checkheap has returned without any flag on a heap in which one
\* bucket has two heads and two tails
C20_SilentPass ==
    /\ call.op = "mm_checkheap" /\ call.ret = 0 /\ fault = "none"
    /\ \E list \in Lists : Cardinality(Heads(H, list)) = 2 /\ Cardinality(Tails(H, list)) = 2

\* with three heads, respectively three tails, in a bucket the flag is set
C20_ThreeFlagged ==
    call.op = "mm_checkheap" =>
        /\ (\E list \in Lists : Cardinality(Heads(H, list)) > 2) => HasFlag(call.ret, 8)
        /\ (\E list \in Lists : Cardinality(Tails(H, list)) > 2) => HasFlag(call.ret, 2)

(***************************************************************************)
(* The proxy's object cache of proxylab-handout/cache.c with the client    *)
(* threads of proxy_nocache.c.  cache is the cache_list structure together *)
(* with the objects that init_object has allocated: nodes[n] is the object *)
(* at address n (0 is NULL).  An object's data is represented by its id    *)
(* and length.  The semaphores r and w are counters: P waits for a         *)
(* positive count and decrements it, V increments it.  Every statement     *)
(* that touches the shared structure is a step of its thread, so that the  *)
(* threads interleave as the scheduler allows.  stamp and clock are        *)
(* history variables: add_to_end stamps the object it appends with the     *)
(* number of add_to_end calls executed so far.                             *)
(***************************************************************************)
\* client threads that run concurrently
NumThreads == 2
\* requests (client_job runs) per thread
MaxJobs == 2
\* objects that init_object allocates in one behaviour
MaxObjects == 3
\* capacity of the cache, standing for MAX_CACHE_SIZE (cache.h:8)
MaxCacheSize == 3
\* the largest object the proxy caches, standing for MAX_OBJECT_SIZE (cache.h:9)
MaxObjectSize == 2

Threads == 1..NumThreads
Objects == 1..MaxObjects
\* cache ids of the requests and lengths of the server's responses
Ids == {"a", "b"}
Lengths == 1..MaxObjectSize

alloc_vars == <<mem, heap_listp, free_lists, eptr, mem_max_addr, fault, live, call, ncalls, trace>>

NoObject == [state |-> "none", next |-> 0, id |-> "", length |-> 0, stamp |-> 0]

init_cache ==
    [first |-> 0, last |-> 0, space_left |-> MaxCacheSize, readcnt |-> 0,
     r |-> 1, w |-> 1, nodes |-> [n \in Objects |-> NoObject],
     clock |-> 0, fault |-> FALSE]

\* the address Malloc returns for the next object
NewObject(c) == CHOOSE n \in Objects :
                    /\ c.nodes[n].state = "none"
                    /\ \A m \in Objects : c.nodes[m].state = "none" => n <= m

init_object(c, id, length) ==
    [c EXCEPT !.nodes[NewObject(c)] =
        [state |-> "alloc", next |-> 0, id |-> id, length |-> length, stamp |-> 0]]

\* reading through a pointer to an object that was freed
Deref(c, n) == [c EXCEPT !.fault = @ \/ c.nodes[n].state # "alloc"]

add_to_end(c, object) ==
    IF c.first = 0
    THEN [c EXCEPT !.first = object,
                   !.last = object,
                   !.space_left = @ - c.nodes[object].length,
                   !.nodes[object].stamp = c.clock + 1,
                   !.clock = @ + 1]
    ELSE [c EXCEPT !.nodes[c.last].next = object,
                   !.last = object,
                   !.space_left = @ - c.nodes[object].length,
                   !.nodes[object].stamp = c.clock + 1,
                   !.clock = @ + 1]

\* delete_object's loop: the first object of the list that carries query_id,
\* with its predecessor
RECURSIVE delete_find(_, _, _, _)
delete_find(c, prev, current, query_id) ==
    IF current = 0 THEN [prev |-> prev, current |-> 0]
    ELSE IF c.nodes[current].id = query_id THEN [prev |-> prev, current |-> current]
    ELSE delete_find(c, current, c.nodes[current].next, query_id)

delete_unlink(c, prev, current) ==
    [c EXCEPT !.first = IF current = c.first THEN c.nodes[current].next ELSE @,
              !.last = IF current = c.last THEN prev ELSE @,
              !.nodes = [n \in Objects |->
                            IF n = current THEN [c.nodes[n] EXCEPT !.next = 0]
                            ELSE IF n = prev THEN [c.nodes[n] EXCEPT !.next = c.nodes[current].next]
                            ELSE c.nodes[n]],
              !.space_left = @ + c.nodes[current].length]

delete_found(c, f) ==
    IF f.current = 0 THEN [c |-> c, ret |-> 0]
    ELSE [c |-> delete_unlink(c, f.prev, f.current), ret |-> f.current]

delete_object(c, query_id) == delete_found(c, delete_find(c, 0, c.first, query_id))

\* mutant: the evicted object's length is not given back
evict_object_no_refund(c) ==
    IF c.first = 0 THEN [c |-> c, ret |-> -1]
    ELSE [c |-> [c EXCEPT !.last = IF c.first = c.last THEN 0 ELSE @,
                          !.first = c.nodes[c.first].next,
                          !.nodes[c.first].state = "freed"],
          ret |-> 0]

evict_object(c) ==
    IF c.first = 0 THEN [c |-> c, ret |-> -1]
    ELSE [c |-> [c EXCEPT !.last = IF c.first = c.last THEN 0 ELSE @,
                          !.first = c.nodes[c.first].next,
                          !.space_left = @ + c.nodes[c.first].length,
                          !.nodes[c.first].state = "freed"],
          ret |-> 0]

\* semaphore operations of csapp.c on a counter
P_ok(s) == s > 0

\* hit is a history variable: the object whose data search_cache copied
Idle == [pc |-> "idle", query_id |-> "", match |-> 0, copied |-> FALSE, hit |-> 0,
         query_length |-> 0, ret |-> 0, new_object |-> 0, jobs |-> 0]

InitProxy ==
    /\ mem = <<>>
    /\ heap_listp = 0
    /\ free_lists = [list \in 0..(NUM_LISTS - 1) |-> 0]
    /\ eptr = 0
    /\ mem_max_addr = MaxHeap
    /\ fault = "none"
    /\ live = <<>>
    /\ call = [op |-> "none", ptr |-> 0, nmemb |-> 0, size |-> 0, ret |-> 0,
               log |-> <<>>, oob |-> FALSE, copies |-> <<>>, dels |-> <<>>, sized |-> <<>>,
     adds |-> <<>>, splits |-> <<>>]
    /\ ncalls = 0
    /\ trace = <<>>
    /\ trans = Unused
    /\ cache = init_cache
    /\ threads = [t \in Threads |-> Idle]

At(t, pc) == threads[t].pc = pc

Goto(t, pc) == threads' = [threads EXCEPT ![t].pc = pc]

\* a connection is accepted and client_job calls forward_request, which
\* calls search_cache with the request's cache id
ClientJob(t, id) ==
    /\ At(t, "idle")
    /\ threads[t].jobs < MaxJobs
    /\ threads' = [threads EXCEPT ![t] =
                      [Idle EXCEPT !.pc = "open_P", !.query_id = id,
                                   !.jobs = threads[t].jobs + 1]]
    /\ UNCHANGED <<cache, alloc_vars, trans>>

\* open_reader, line 49
OpenReaderP(t) ==
    /\ At(t, "open_P")
    /\ P_ok(cache.r)
    /\ cache' = [cache EXCEPT !.r = @ - 1]
    /\ Goto(t, "open_cnt")
    /\ UNCHANGED <<alloc_vars, trans>>

\* open_reader whose first reader does not take the writer semaphore
OpenReaderCount_no_writer_lock(t) ==
    /\ At(t, "open_cnt")
    /\ cache' = [cache EXCEPT !.readcnt = @ + 1]
    /\ Goto(t, "open_V")
    /\ UNCHANGED <<alloc_vars, trans>>

\* open_reader, lines 50-52: the first reader waits for the writer semaphore
OpenReaderCount(t) ==
    /\ At(t, "open_cnt")
    /\ IF cache.readcnt + 1 = 1
       THEN /\ P_ok(cache.w)
            /\ cache' = [cache EXCEPT !.readcnt = @ + 1, !.w = @ - 1]
       ELSE cache' = [cache EXCEPT !.readcnt = @ + 1]
    /\ Goto(t, "open_V")
    /\ UNCHANGED <<alloc_vars, trans>>

\* open_reader, line 53
OpenReaderV(t) ==
    /\ At(t, "open_V")
    /\ cache' = [cache EXCEPT !.r = @ + 1]
    /\ Goto(t, "s_first")
    /\ UNCHANGED <<alloc_vars, trans>>

\* search_cache, line 82
SearchFirst(t) ==
    /\ At(t, "s_first")
    /\ threads' = [threads EXCEPT ![t].pc = "s_walk", ![t].match = cache.first]
    /\ UNCHANGED <<cache, alloc_vars, trans>>

\* search_cache, lines 83-87: one test of the loop; lines 90, 94
SearchWalk(t) ==
    /\ At(t, "s_walk")
    /\ IF threads[t].match = 0
       THEN /\ Goto(t, "close_P")
            /\ UNCHANGED cache
       ELSE /\ cache' = Deref(cache, threads[t].match)
            /\ IF cache.nodes[threads[t].match].id = threads[t].query_id
               THEN Goto(t, "s_copy")
               ELSE threads' = [threads EXCEPT
                                   ![t].match = cache.nodes[threads[t].match].next]
    /\ UNCHANGED <<alloc_vars, trans>>

\* search_cache, lines 91-92: the hit's length and data go to the caller
SearchCopy(t) ==
    /\ At(t, "s_copy")
    /\ cache' = Deref(cache, threads[t].match)
    /\ threads' = [threads EXCEPT ![t].pc = "close_P", ![t].copied = TRUE,
                                  ![t].hit = threads[t].match,
                                  ![t].query_length = cache.nodes[threads[t].match].length]
    /\ UNCHANGED <<alloc_vars, trans>>

\* close_reader, line 61
CloseReaderP(t) ==
    /\ At(t, "close_P")
    /\ P_ok(cache.r)
    /\ cache' = [cache EXCEPT !.r = @ - 1]
    /\ Goto(t, "close_cnt")
    /\ UNCHANGED <<alloc_vars, trans>>

\* close_reader, lines 62-64
CloseReaderCount(t) ==
    /\ At(t, "close_cnt")
    /\ cache' = [cache EXCEPT !.readcnt = @ - 1,
                              !.w = IF cache.readcnt - 1 = 0 THEN @ + 1 ELSE @]
    /\ Goto(t, "close_V")
    /\ UNCHANGED <<alloc_vars, trans>>

\* close_reader, line 65, and the return to search_cache: line 96 after a
\* miss, line 101 after a hit
CloseReaderV(t) ==
    /\ At(t, "close_V")
    /\ cache' = [cache EXCEPT !.r = @ + 1]
    /\ IF threads[t].match = 0
       THEN threads' = [threads EXCEPT ![t].pc = "s_ret", ![t].ret = -1]
       ELSE Goto(t, "s_Pw")
    /\ UNCHANGED <<alloc_vars, trans>>

\* search_cache, line 101
SearchLock(t) ==
    /\ At(t, "s_Pw")
    /\ P_ok(cache.w)
    /\ cache' = [cache EXCEPT !.w = @ - 1]
    /\ Goto(t, "s_delete")
    /\ UNCHANGED <<alloc_vars, trans>>

\* mutant: the failed re-lookup returns without V(&cache->w)
SearchDeleted_keeps_w(t, d) ==
    /\ cache' = d.c
    /\ IF d.ret = 0
       THEN threads' = [threads EXCEPT ![t].pc = "s_ret", ![t].match = 0, ![t].ret = -1]
       ELSE threads' = [threads EXCEPT ![t].pc = "s_add", ![t].match = d.ret]

SearchDeleted(t, d) ==
    /\ cache' = d.c
    /\ IF d.ret = 0
       THEN threads' = [threads EXCEPT ![t].pc = "s_Vw", ![t].match = 0, ![t].ret = -1]
       ELSE threads' = [threads EXCEPT ![t].pc = "s_add", ![t].match = d.ret]

\* search_cache, line 102
SearchDelete(t) ==
    /\ At(t, "s_delete")
    /\ SearchDeleted(t, delete_object(cache, threads[t].query_id))
    /\ UNCHANGED <<alloc_vars, trans>>

\* search_cache, line 106
SearchAdd(t) ==
    /\ At(t, "s_add")
    /\ cache' = add_to_end(cache, threads[t].match)
    /\ threads' = [threads EXCEPT ![t].pc = "s_Vw", ![t].ret = 0]
    /\ UNCHANGED <<alloc_vars, trans>>

\* search_cache, lines 103 and 107, and the return
SearchUnlock(t) ==
    /\ At(t, "s_Vw")
    /\ cache' = [cache EXCEPT !.w = @ + 1]
    /\ Goto(t, "s_ret")
    /\ UNCHANGED <<alloc_vars, trans>>

\* forward_request returns 1 and client_job answers from the buffer
Respond(t) ==
    /\ At(t, "s_ret")
    /\ threads[t].ret # -1
    /\ Goto(t, "idle")
    /\ UNCHANGED <<cache, alloc_vars, trans>>

\* forward_request returns 0, forward_server_response relays the server's
\* answer and calls add_to_cache with an object of the given length:
\* add_to_cache, lines 185-186
Forward(t, length) ==
    /\ At(t, "s_ret")
    /\ threads[t].ret = -1
    /\ \E n \in Objects : cache.nodes[n].state = "none"
    /\ cache' = init_object(cache, threads[t].query_id, length)
    /\ threads' = [threads EXCEPT ![t].pc = "a_Pw", ![t].new_object = NewObject(cache)]
    /\ UNCHANGED <<alloc_vars, trans>>

\* the server's answer is larger than MAX_OBJECT_SIZE, or the connection
\* failed: nothing is cached
ForwardOnly(t) ==
    /\ At(t, "s_ret")
    /\ threads[t].ret = -1
    /\ Goto(t, "idle")
    /\ UNCHANGED <<cache, alloc_vars, trans>>

\* add_to_cache, line 188
AddLock(t) ==
    /\ At(t, "a_Pw")
    /\ P_ok(cache.w)
    /\ cache' = [cache EXCEPT !.w = @ - 1]
    /\ Goto(t, "a_loop")
    /\ UNCHANGED <<alloc_vars, trans>>

AddEvicted(t, e) ==
    /\ cache' = e.c
    /\ IF e.ret = -1
       THEN threads' = [threads EXCEPT ![t].pc = "a_Vw", ![t].ret = -1]
       ELSE UNCHANGED threads

\* add_to_cache, lines 189-194: one round of the loop
AddEvict(t) ==
    /\ At(t, "a_loop")
    /\ cache.space_left < cache.nodes[threads[t].new_object].length
    /\ AddEvicted(t, evict_object(cache))
    /\ UNCHANGED <<alloc_vars, trans>>

\* add_to_cache, lines 189 and 195
AddAppend(t) ==
    /\ At(t, "a_loop")
    /\ ~(cache.space_left < cache.nodes[threads[t].new_object].length)
    /\ cache' = add_to_end(cache, threads[t].new_object)
    /\ threads' = [threads EXCEPT ![t].pc = "a_Vw", ![t].ret = 0]
    /\ UNCHANGED <<alloc_vars, trans>>

\* add_to_cache, lines 191 and 196, and the end of client_job
AddUnlock(t) ==
    /\ At(t, "a_Vw")
    /\ cache' = [cache EXCEPT !.w = @ + 1]
    /\ Goto(t, "idle")
    /\ UNCHANGED <<alloc_vars, trans>>

NextProxy ==
    \/ \E t \in Threads, id \in Ids : ClientJob(t, id)
    \/ \E t \in Threads : OpenReaderP(t)
    \/ \E t \in Threads : OpenReaderCount(t)
    \/ \E t \in Threads : OpenReaderV(t)
    \/ \E t \in Threads : SearchFirst(t)
    \/ \E t \in Threads : SearchWalk(t)
    \/ \E t \in Threads : SearchCopy(t)
    \/ \E t \in Threads : CloseReaderP(t)
    \/ \E t \in Threads : CloseReaderCount(t)
    \/ \E t \in Threads : CloseReaderV(t)
    \/ \E t \in Threads : SearchLock(t)
    \/ \E t \in Threads : SearchDelete(t)
    \/ \E t \in Threads : SearchAdd(t)
    \/ \E t \in Threads : SearchUnlock(t)
    \/ \E t \in Threads : Respond(t)
    \/ \E t \in Threads, length \in Lengths : Forward(t, length)
    \/ \E t \in Threads : ForwardOnly(t)
    \/ \E t \in Threads : AddLock(t)
    \/ \E t \in Threads : AddEvict(t)
    \/ \E t \in Threads : AddAppend(t)
    \/ \E t \in Threads : AddUnlock(t)

SpecProxy == InitProxy /\ [][NextProxy]_vars

\* the threads inside search_cache's reading section (lines 82-92, between
\* the return of open_reader and the call of close_reader) and inside a
\* section that the writer semaphore guards (lines 102-107 and 189-196)
Readers == {t \in Threads : threads[t].pc \in {"s_first", "s_walk", "s_copy", "close_P"}}
Writers == {t \in Threads : threads[t].pc \in {"s_delete", "s_add", "s_Vw", "a_loop", "a_Vw"}}

\* the list from cache.first on, as the sequence of its objects
RECURSIVE ListFrom(_, _, _)
ListFrom(c, n, fuel) ==
    IF n = 0 \/ fuel = 0 THEN <<>> ELSE <<n>> \o ListFrom(c, c.nodes[n].next, fuel - 1)

CacheList(c) == ListFrom(c, c.first, MaxObjects + 1)

(***************************************************************************)
(* C21.  Readers and writers exclude each other: while a thread is in      *)
(* search_cache's reading section no thread is in a section guarded by the *)
(* writer semaphore, at most one thread is in such a section at a time,    *)
(* and no thread ever reads an object that was freed.  Several readers may *)
(* be reading at once (C21_Witness).                                       *)
(***************************************************************************)
C21_ReadersWriters ==
    /\ Cardinality(Writers) <= 1
    /\ Readers # {} => Writers = {}
    /\ Writers # {} => cache.w = 0
    /\ cache.fault = FALSE

C21_Witness ==
    /\ Cardinality(Readers) >= 2
    /\ \E t \in Readers : threads[t].pc = "s_walk" /\ threads[t].match # 0
    /\ \E n \in Objects : cache.nodes[n].state = "freed"

(***************************************************************************)
(* C22.  Whenever search_cache has returned, it returned 0 if it found a   *)
(* matching object and copied its contents and length to the caller, and   *)
(* it returned -1 only if it found no object with the query id.            *)
(***************************************************************************)
C22_SearchResult ==
    \A t \in Threads :
        threads[t].pc = "s_ret" => (threads[t].copied <=> threads[t].ret = 0)

(***************************************************************************)
(* C23.  The cache's replacement policy.  add_to_cache appends the new     *)
(* object at the end of the list; a search_cache that returns 0 has moved  *)
(* the object it hit to the end of the list; evict_object removes the      *)
(* object at the front, and that object's latest add or move to the end    *)
(* (by stamp, the order of the writer sections) is the oldest among the    *)
(* cached objects.                                                         *)
(***************************************************************************)
Stamp(c, n) == c.nodes[n].stamp

\* the step frees object n, which was cached
Evicts(n) == cache.nodes[n].state = "alloc" /\ cache'.nodes[n].state = "freed"

\* thread t's step takes it from one statement to another
Steps(t, from, to) == threads[t].pc = from /\ threads'[t].pc = to

LRUEvict ==
    \A n \in Objects : Evicts(n) =>
        /\ CacheList(cache) # <<>>
        /\ n = Head(CacheList(cache))
        /\ CacheList(cache') = Tail(CacheList(cache))
        /\ \A m \in Range(CacheList(cache)) : Stamp(cache, n) <= Stamp(cache, m)

LRUAdd ==
    \A t \in Threads : (Steps(t, "a_loop", "a_Vw") /\ threads'[t].ret = 0) =>
        /\ CacheList(cache') = Append(CacheList(cache), threads[t].new_object)
        /\ \A m \in Range(CacheList(cache)) :
              Stamp(cache', m) = Stamp(cache, m) /\ Stamp(cache', m) < Stamp(cache', threads[t].new_object)

\* the object that search_cache re-inserts carries the query id and becomes
\* the last of the list
LRUMove ==
    \A t \in Threads : Steps(t, "s_add", "s_Vw") =>
        /\ CacheList(cache') = Append(CacheList(cache), threads[t].match)
        /\ cache.nodes[threads[t].match].id = threads[t].query_id
        /\ \A m \in Range(CacheList(cache)) :
              Stamp(cache', m) = Stamp(cache, m) /\ Stamp(cache', m) < Stamp(cache', threads[t].match)

\* ... and it is the object whose data was copied to the caller
LRUMovesHit ==
    \A t \in Threads : Steps(t, "s_add", "s_Vw") => threads[t].match = threads[t].hit

C23_LRU == [][LRUEvict /\ LRUAdd /\ LRUMove /\ LRUMovesHit]_vars

(***************************************************************************)
(* The matrix transpose transpose_submit of trans.c.  trans holds the      *)
(* arguments M, N, A (N rows of M ints) and B (M rows of N ints), the      *)
(* locals temp and diag_index, the loop counters and the position in the   *)
(* function.  oob records an access to A or B with an index outside the    *)
(* array's bounds.  A step runs one round of a second-innermost loop.      *)
(* B, temp and diag_index start uninitialised.                             *)
(***************************************************************************)
\* the shapes <<M, N>> of the three test cases
Shapes == {<<32, 32>>, <<64, 64>>, <<61, 67>>}
\* A[i][j] is the element's position in A modulo one of these: all elements
\* distinct, or few values repeating
Moduli == {3, 5000}

InA(s, r, c) == r \in 0..(s.N - 1) /\ c \in 0..(s.M - 1)
InB(s, r, c) == r \in 0..(s.M - 1) /\ c \in 0..(s.N - 1)

Touch(s, ok) == IF ok THEN s ELSE [s EXCEPT !.oob = TRUE]

LoadB(s, r, c) == IF InB(s, r, c) THEN s.B[r][c] ELSE Uninit

\* B[r][c] = v
StoreB(s, r, c, v) ==
    IF InB(s, r, c) THEN [s EXCEPT !.B[r][c] = v] ELSE [s EXCEPT !.oob = TRUE]

\* B[br][bc] = A[ar][ac]
Copy(s, br, bc, ar, ac) ==
    IF InA(s, ar, ac) THEN StoreB(s, br, bc, s.A[ar][ac]) ELSE [s EXCEPT !.oob = TRUE]

\* temp = A[r][c]; diag_index = r
SetTemp(s, r, c) ==
    IF InA(s, r, c) THEN [s EXCEPT !.temp = s.A[r][c], !.diag_index = r]
    ELSE [s EXCEPT !.oob = TRUE, !.diag_index = r]

\* the diagonal store that leaves the diagonal elements of B unset
diag_store_off_diagonal(s, i, j) ==
    IF i # j THEN StoreB(s, s.diag_index, s.diag_index, s.temp) ELSE s

\* lines 73-75 and 142-144
diag_store(s, i, j) ==
    IF i = j THEN StoreB(s, s.diag_index, s.diag_index, s.temp) ELSE s

\* lines 61-72: the loop over block_col
RECURSIVE cols32(_, _, _, _, _)
cols32(s, i, j, block_row, block_col) ==
    IF ~(block_col < 8) THEN s
    ELSE IF i + block_row = j + block_col
    THEN cols32(SetTemp(s, i + block_row, j + block_col), i, j, block_row, block_col + 1)
    ELSE cols32(Copy(s, j + block_col, i + block_row, i + block_row, j + block_col),
                i, j, block_row, block_col + 1)

\* lines 60-76: one round of the loop over block_row
row32(s, i, j, block_row) == diag_store(cols32(s, i, j, block_row, 0), i, j)

\* lines 87-98: one round of the first loop over k
first64(s, block_row, block_col, k) ==
    Copy(Copy(Copy(Copy(Copy(Copy(Copy(Copy(s,
        block_col + 0, k, k, block_col + 0),
        block_col + 1, k, k, block_col + 1),
        block_col + 2, k, k, block_col + 2),
        block_col + 3, k, k, block_col + 3),
        block_col + 0, k + 4, k, block_col + 4),
        block_col + 1, k + 4, k, block_col + 5),
        block_col + 2, k + 4, k, block_col + 6),
        block_col + 3, k + 4, k, block_col + 7)

\* lines 108-123, the temporaries read on lines 102-105 given
second64_store(s, block_row, block_col, k, temp1, temp2, temp3, temp4) ==
    Copy(Copy(Copy(Copy(
    StoreB(StoreB(StoreB(StoreB(
    Copy(Copy(Copy(Copy(s,
        k, block_row + 4, block_row + 4, k),
        k, block_row + 5, block_row + 5, k),
        k, block_row + 6, block_row + 6, k),
        k, block_row + 7, block_row + 7, k),
        k + 4, block_row + 0, temp1),
        k + 4, block_row + 1, temp2),
        k + 4, block_row + 2, temp3),
        k + 4, block_row + 3, temp4),
        k + 4, block_row + 4, block_row + 4, k + 4),
        k + 4, block_row + 5, block_row + 5, k + 4),
        k + 4, block_row + 6, block_row + 6, k + 4),
        k + 4, block_row + 7, block_row + 7, k + 4)

\* lines 100-124: one round of the second loop over k
second64(s, block_row, block_col, k) ==
    second64_store(Touch(s, InB(s, k, block_row + 4) /\ InB(s, k, block_row + 7)),
                   block_row, block_col, k,
                   LoadB(s, k, block_row + 4), LoadB(s, k, block_row + 5),
                   LoadB(s, k, block_row + 6), LoadB(s, k, block_row + 7))

\* lines 134-141: the loop over col
RECURSIVE cols67(_, _, _, _, _)
cols67(s, i, j, row, col) ==
    IF ~((col < j + 16) /\ (col < s.M)) THEN s
    ELSE IF row = col
    THEN cols67(SetTemp(s, row, col), i, j, row, col + 1)
    ELSE cols67(Copy(s, col, row, row, col), i, j, row, col + 1)

\* lines 133-145: one round of the loop over row
row67(s, i, j, row) == diag_store(cols67(s, i, j, row, j), i, j)

\* lines 201-213
is_transpose(M, N, A, B) ==
    IF \E i \in 0..(N - 1), j \in 0..(M - 1) : A[i][j] # B[j][i] THEN 0 ELSE 1

\* the three nested loop headers of lines 58-60: after a round with counters
\* i, j, k the next round, or the statement after the loops
next32(s) ==
    IF s.k + 1 < 8 THEN [s EXCEPT !.k = @ + 1]
    ELSE IF s.j + 8 < s.M THEN [s EXCEPT !.j = @ + 8, !.k = 0]
    ELSE IF s.i + 8 < s.N THEN [s EXCEPT !.i = @ + 8, !.j = 0, !.k = 0]
    ELSE [s EXCEPT !.pc = "if64", !.i = 0, !.j = 0, !.k = 0]

\* lines 84-86 and 100: i is block_row, j is block_col, k counts the rounds
\* of the two loops over k of one block
next64(s) ==
    IF s.k + 1 < 4 THEN [s EXCEPT !.k = @ + 1]
    ELSE IF s.pc = "first64" THEN [s EXCEPT !.pc = "second64", !.k = 0]
    ELSE IF s.j + 8 < s.M THEN [s EXCEPT !.pc = "first64", !.j = @ + 8, !.k = 0]
    ELSE IF s.i + 8 < s.N THEN [s EXCEPT !.pc = "first64", !.i = @ + 8, !.j = 0, !.k = 0]
    ELSE [s EXCEPT !.pc = "if67", !.i = 0, !.j = 0, !.k = 0]

\* lines 131-133: k is row
next67(s) ==
    IF (s.k + 1 < s.i + 16) /\ (s.k + 1 < s.N) THEN [s EXCEPT !.k = @ + 1]
    ELSE IF s.j + 16 < s.M THEN [s EXCEPT !.j = @ + 16, !.k = s.i]
    ELSE IF s.i + 16 < s.N THEN [s EXCEPT !.i = @ + 16, !.j = 0, !.k = s.i + 16]
    ELSE [s EXCEPT !.pc = "ensures", !.i = 0, !.j = 0, !.k = 0]

InitTrans ==
    /\ mem = <<>>
    /\ heap_listp = 0
    /\ free_lists = [list \in 0..(NUM_LISTS - 1) |-> 0]
    /\ eptr = 0
    /\ mem_max_addr = MaxHeap
    /\ fault = "none"
    /\ live = <<>>
    /\ call = [op |-> "none", ptr |-> 0, nmemb |-> 0, size |-> 0, ret |-> 0,
               log |-> <<>>, oob |-> FALSE, copies |-> <<>>, dels |-> <<>>, sized |-> <<>>,
     adds |-> <<>>, splits |-> <<>>]
    /\ ncalls = 0
    /\ trace = <<>>
    /\ cache = Unused
    /\ threads = Unused
    /\ \E shape \in Shapes, modulus \in Moduli :
          trans = [M |-> shape[1], N |-> shape[2],
                   A |-> [i \in 0..(shape[2] - 1) |->
                             [j \in 0..(shape[1] - 1) |-> (i * shape[1] + j) % modulus]],
                   B |-> [j \in 0..(shape[1] - 1) |-> [i \in 0..(shape[2] - 1) |-> Uninit]],
                   temp |-> Uninit, diag_index |-> Uninit, oob |-> FALSE,
                   pc |-> "if32", i |-> 0, j |-> 0, k |-> 0, ensures |-> Uninit]

TransStep(s) ==
    /\ trans' = s
    /\ UNCHANGED <<alloc_vars, cache, threads>>

\* line 55
If32 ==
    /\ trans.pc = "if32"
    /\ TransStep([trans EXCEPT !.pc = IF trans.N = 32 THEN "row32" ELSE "if64"])

Row32 ==
    /\ trans.pc = "row32"
    /\ TransStep(next32(row32(trans, trans.i, trans.j, trans.k)))

\* line 80
If64 ==
    /\ trans.pc = "if64"
    /\ TransStep([trans EXCEPT !.pc = IF trans.N = 64 THEN "first64" ELSE "if67"])

First64 ==
    /\ trans.pc = "first64"
    /\ TransStep(next64(first64(trans, trans.i, trans.j, trans.i + trans.k)))

Second64 ==
    /\ trans.pc = "second64"
    /\ TransStep(next64(second64(trans, trans.i, trans.j, trans.j + trans.k)))

\* line 128
If67 ==
    /\ trans.pc = "if67"
    /\ TransStep([trans EXCEPT !.pc = IF trans.N = 67 THEN "row67" ELSE "ensures"])

Row67 ==
    /\ trans.pc = "row67"
    /\ TransStep(next67(row67(trans, trans.i, trans.j, trans.k)))

\* line 150
Ensures ==
    /\ trans.pc = "ensures"
    /\ TransStep([trans EXCEPT !.pc = "done",
                               !.ensures = is_transpose(trans.M, trans.N, trans.A, trans.B)])

NextTrans ==
    \/ If32
    \/ Row32
    \/ If64
    \/ First64
    \/ Second64
    \/ If67
    \/ Row67
    \/ Ensures

SpecTrans == InitTrans /\ [][NextTrans]_vars

(***************************************************************************)
(* C24.  For each of the three shapes, when transpose_submit returns,      *)
(* B[j][i] = A[i][j] for all 0 <= i < N and 0 <= j < M, the ENSURES        *)
(* condition is_transpose holds, and at no point has the function accessed *)
(* A or B outside their bounds.                                            *)
(***************************************************************************)
C24_Transpose ==
    /\ trans.oob = FALSE
    /\ trans.pc = "done" =>
          /\ trans.ensures = 1
          /\ \A i \in 0..(trans.N - 1), j \in 0..(trans.M - 1) :
                trans.B[j][i] = trans.A[i][j]

C24_Witness ==
    /\ trans.pc = "done"
    /\ trans.M = 61 /\ trans.N = 67
    /\ trans.A[66][60] = 66 * 61 + 60
    /\ trans.B[60][66] = 66 * 61 + 60
    /\ trans.B[60][60] = trans.A[60][60]

(***************************************************************************)
(* C25.  On an initialised heap, search_list(asize) returns NULL only if   *)
(* no bucket from get_list(asize) up to the top bucket holds a free block  *)
(* of size >= asize, and then no free block of the heap has size >= asize; *)
(* so a malloc that calls the growth primitive does so on a heap without   *)
(* a free block of at least the adjusted size of its request.              *)
(***************************************************************************)
NoFitFrom(h, asize) ==
    \A list \in get_list(asize)..(NUM_LISTS - 1) :
        \A b \in Range(Bucket(h, list)) : GET_SIZE(h, HDRP(b)) < asize

NoFit(h, asize) == \A b \in FreeBlocks(h) : GET_SIZE(h, HDRP(b)) < asize

SuccessorSuffices(h, p, newsize) ==
    /\ newsize > GET_SIZE(h, HDRP(p))
    /\ NextFree(h, p)
    /\ GET_SIZE(h, HDRP(NEXT_BLKP(h, p))) >= newsize - GET_SIZE(h, HDRP(p))

GrownForward(pre, post, p) ==
    /\ post.fault = "none"
    /\ PrevFree(pre, p) =>
          /\ PREV_BLKP(pre, p) \in FreeBlocks(post)
          /\ GET_SIZE(post, HDRP(PREV_BLKP(pre, p))) = GET_SIZE(pre, HDRP(PREV_BLKP(pre, p)))
    /\ \A k \in 0..((GET_SIZE(pre, HDRP(p)) - 4 * WSIZE) \div WSIZE - 1) :
          GET(post, p + WSIZE * k) = GET(pre, p + WSIZE * k)

C26_GrowsIntoSuccessor ==
    [][(/\ ncalls' = ncalls + 1
        /\ call'.op = "realloc"
        /\ call'.ptr # 0
        /\ call'.size > 0
        /\ SuccessorSuffices(H, call'.ptr, align_size(call'.size)))
       => (/\ call'.ret = call'.ptr
           /\ GrownForward(H, H', call'.ptr))]_vars

(***************************************************************************)
(* C27.  Every memcpy by which realloc moves the data of block p copies at *)
(* most min(old payload size, requested size) bytes, and so reads neither  *)
(* beyond p's payload nor beyond the last byte of the heap.                *)
(***************************************************************************)
Min(a, b) == IF a < b THEN a ELSE b

\* the bytes between the header and the footer of block p
PayloadSize(h, p) == FTRP(h, p) - p

CopyIsBounded(pre, post, p, size, c) ==
    /\ c.n <= Min(PayloadSize(pre, p), size)
    /\ c.src + c.n <= p + PayloadSize(pre, p)
    /\ c.src + c.n <= WSIZE * Len(post.mem)

C27_CopyWithinPayload ==
    [][(/\ ncalls' = ncalls + 1
        /\ call'.op = "realloc"
        /\ call'.ptr # 0
        /\ call'.size > 0)
       => \A k \in 1..Len(call'.copies) :
             call'.copies[k].src = call'.ptr
                => CopyIsBounded(H, H', call'.ptr, call'.size, call'.copies[k])]_vars

(***************************************************************************)
(* C28.  Whenever delete_block(b) runs, b is a member of the bucket of its *)
(* current size, free_lists[get_list(GET_SIZE(HDRP(b)))], and when b's     *)
(* previous link is the end marker b is that bucket's root, so that the    *)
(* root update of the sole-member and head cases goes to the bucket that   *)
(* holds b; and set_size is never applied to a block that is linked.       *)
(***************************************************************************)
\* the bucket delete_block computes for block bp in heap h, line 439
OwnList(h, bp) == get_list(GET_SIZE(h, HDRP(bp)))

DeletedFromOwnBucket(d) ==
    /\ d.bp \in Range(Bucket(d.pre, OwnList(d.pre, d.bp)))
    /\ GET_PREV_FREE(d.pre, d.bp) = LIST_END => d.pre.fl[OwnList(d.pre, d.bp)] = d.bp

WellFormed(h, list) ==
    LET s == Bucket(h, list)
    IN  /\ \A i, j \in 1..Len(s) : s[i] = s[j] => i = j
        /\ s # <<>> =>
              /\ GET_PREV_FREE(h, s[1]) = LIST_END
              /\ GET_NEXT_FREE(h, s[Len(s)]) = LIST_END
              /\ Cardinality({x \in Range(s) : GET_PREV_FREE(h, x) = LIST_END}) = 1
              /\ Cardinality({x \in Range(s) : GET_NEXT_FREE(h, x) = LIST_END}) = 1
        /\ \A i \in 1..(Len(s) - 1) : GET_PREV_FREE(h, s[i + 1]) = s[i]

\* the root of block a.bp's bucket when add_block was entered
FormerHead(a) == a.pre.fl[OwnList(a.pre, a.bp)]

PushedOnHead(a) ==
    /\ a.post.fl[OwnList(a.pre, a.bp)] = a.bp
    /\ FormerHead(a) # 0 => GET_PREV_FREE(a.post, FormerHead(a)) = a.bp

SplitAsDescribed(sp) ==
    LET S == GET_SIZE(sp.pre, HDRP(sp.bp))
        a == sp.asize
        rest == sp.bp + a
    IN  /\ GET_ALLOC(sp.pre, HDRP(sp.bp)) = 0
        /\ Linked(sp.pre, sp.bp)
        /\ S >= a
        /\ ~Linked(sp.post, sp.bp)
        /\ IF S - a >= MIN_SIZE
           THEN /\ GET_SIZE(sp.post, HDRP(sp.bp)) = a
                /\ GET(sp.post, HDRP(rest)) = PACK(S - a, 0)
                /\ GET(sp.post, FTRP(sp.post, rest)) = PACK(S - a, 0)
                /\ rest \in Range(Bucket(sp.post, get_list(S - a)))
           ELSE GET_SIZE(sp.post, HDRP(sp.bp)) = S

C30_Split ==
    /\ \A k \in 1..Len(call.splits) : SplitAsDescribed(call.splits[k])
    /\ \A k \in 1..Len(call.sized) : call.sized[k].size >= MIN_SIZE

(***************************************************************************)
(* Growth of the heap by requests above the chunk size: malloc and free    *)
(* calls under a heap limit that leaves room for three extensions.         *)
(***************************************************************************)
GrowHeap == 1100
GrowSizes == {5, 300, 500}

InitG ==
    /\ mem = <<>>
    /\ heap_listp = 0
    /\ free_lists = [list \in 0..(NUM_LISTS - 1) |-> 0]
    /\ eptr = 0
    /\ mem_max_addr = GrowHeap
    /\ fault = "none"
    /\ live = <<>>
    /\ call = [op |-> "none", ptr |-> 0, nmemb |-> 0, size |-> 0, ret |-> 0,
               log |-> <<>>, oob |-> FALSE, copies |-> <<>>, dels |-> <<>>,
               sized |-> <<>>, adds |-> <<>>, splits |-> <<>>]
    /\ ncalls = 0
    /\ trace = <<>>
    /\ cache = Unused
    /\ threads = Unused
    /\ trans = Unused

NextG ==
    \/ MmInit
    \/ \E n \in GrowSizes : Malloc(n)
    \/ \E i \in 1..Len(live) : Free(i)

SpecG == InitG /\ [][NextG]_vars

(***************************************************************************)
(* C31.  When malloc finds no fit for the adjusted size a, the growth      *)
(* primitive is called exactly once, with max(a - t, CHUNKSIZE) bytes, t   *)
(* being the size of the last block of the heap when it is free and 0      *)
(* otherwise; when the growth succeeds, the block handed to split starts   *)
(* where that free last block started (at the new space when there was     *)
(* none), has the size t plus the growth, and that is at least a.          *)
(***************************************************************************)
Max(a, b) == IF a >= b THEN a ELSE b

\* the last block before the epilogue (the prologue in an empty heap)
LastBlock(h) == AllBlocks(h)[Len(AllBlocks(h))]

FreeTail(h) ==
    IF GET_ALLOC(h, HDRP(LastBlock(h))) = 0 THEN GET_SIZE(h, HDRP(LastBlock(h))) ELSE 0

GrownFor(pre, c, a) ==
    /\ c.log = <<Max(a - FreeTail(pre), CHUNKSIZE)>>
    /\ c.ret # 0 =>
          /\ Len(c.splits) = 1
          /\ c.splits[1].asize = a
          /\ c.splits[1].bp = pre.eptr + 2 * WSIZE - FreeTail(pre)
          /\ GET_SIZE(c.splits[1].pre, HDRP(c.splits[1].bp)) = FreeTail(pre) + c.log[1]
          /\ GET_SIZE(c.splits[1].pre, HDRP(c.splits[1].bp)) >= a

C31_ExtendHeap ==
    [][(/\ ncalls' = ncalls + 1
        /\ call'.op = "malloc"
        /\ call'.size > 0
        /\ heap_listp > 0
        /\ search_list(H, align_size(call'.size)).ret = 0)
       => GrownFor(H, call', align_size(call'.size))]_vars

\* a malloc has grown the heap by more than a chunk, less than its adjusted
\* size, and has merged the new space with the free block at the heap's end
C31_Witness ==
    /\ Serving
    /\ call.op = "malloc" /\ call.ret # 0
    /\ Len(call.log) = 1
    /\ call.log[1] > CHUNKSIZE
    /\ call.log[1] < align_size(call.size)
    /\ call.dels # <<>>

(***************************************************************************)
(* get_list applied to sizes around the powers of two, before the first    *)
(* call of the allocator, and the malloc and free calls after it.          *)
(***************************************************************************)
MaxBits == 24
ListSizes ==
    (1..80) \cup UNION {{2^k - 1, 2^k, 2^k + 1} : k \in 7..MaxBits}

GetList(s) ==
    /\ heap_listp = 0 /\ ncalls = 0
    /\ call.op = "none"
    /\ call' = [call EXCEPT !.op = "get_list", !.size = s, !.ret = get_list(s)]
    /\ UNCHANGED <<mem, heap_listp, free_lists, eptr, mem_max_addr, fault, live,
                   ncalls, trace, others>>

NextL ==
    \/ \E s \in ListSizes : GetList(s)
    \/ MmInit
    \/ \E n \in MallocSizes : Malloc(n)
    \/ \E i \in 1..Len(live) : Free(i)

SpecL == Init /\ [][NextL]_vars

(***************************************************************************)
(* C32.  For s >= 1, get_list(s) is the bit length of s, at most           *)
(* NUM_LISTS - 1: it is i when 2^(i-1) <= s < 2^i and i < 19, and 19 for   *)
(* every s >= 2^18; every free block of the heap is in the bucket of that  *)
(* index, and bucket 0 is empty in every reachable state.                  *)
(***************************************************************************)
\* the i with 2^(i-1) <= s < 2^i
BitLength(s) == CHOOSE i \in 1..(MaxBits + 2) : 2^(i - 1) <= s /\ s < 2^i

SizeClass(s) == Min(BitLength(s), NUM_LISTS - 1)

C32_GetList ==
    /\ call.op = "get_list" =>
          /\ call.ret = SizeClass(call.size)
          /\ \A i \in 1..(NUM_LISTS - 2) :
                2^(i - 1) <= call.size /\ call.size < 2^i => call.ret = i
          /\ call.size >= 2^(NUM_LISTS - 2) => call.ret = NUM_LISTS - 1
    /\ free_lists[0] = 0
    /\ Serving =>
          \A b \in FreeBlocks(H) :
              b \in Range(Bucket(H, SizeClass(GET_SIZE(H, HDRP(b)))))

\* get_list has been applied to a size of 2^18 or more
C32_Witness ==
    /\ call.op = "get_list"
    /\ call.size >= 2^(NUM_LISTS - 2)
    /\ call.ret = NUM_LISTS - 1

\* free blocks are filed in two buckets
C32_Filed ==
    /\ Serving
    /\ Cardinality({list \in Lists : free_lists[list] # 0}) >= 2

(***************************************************************************)
(* Longer runs of malloc and free with two request sizes whose blocks      *)
(* share a bucket.                                                         *)
(***************************************************************************)
FitOps == 7
FitSizes == {24, 40}

ReadyF == heap_listp > 0 /\ fault = "none" /\ ncalls < FitOps

MallocF(n) ==
    /\ ReadyF
    /\ Allocated("malloc", 0, 0, n, n, malloc(H, n))
    /\ UNCHANGED trace

FreeF(i) ==
    /\ ReadyF
    /\ Freed(live[i].ptr, free(H, live[i].ptr))
    /\ live' = Remove(live, i)
    /\ UNCHANGED trace

NextF ==
    \/ MmInit
    \/ \E n \in FitSizes : MallocF(n)
    \/ \E i \in 1..Len(live) : FreeF(i)

SpecF == Init /\ [][NextF]_vars

(***************************************************************************)
(* C33.  search_list is first-fit: the block it passes to split is the     *)
(* first one, in list order from the head, of the lowest bucket at or      *)
(* above get_list(asize) that holds a block of size >= asize, and NULL is  *)
(* returned only when no such bucket exists; no adequate block is passed   *)
(* over for a later one of its bucket or for one of a higher bucket.       *)
(***************************************************************************)
Adequate(h, list, asize) ==
    {k \in 1..Len(Bucket(h, list)) : GET_SIZE(h, HDRP(Bucket(h, list)[k])) >= asize}

AdequateLists(h, asize) ==
    {list \in get_list(asize)..(NUM_LISTS - 1) : Adequate(h, list, asize) # {}}

Least(S) == CHOOSE x \in S : \A y \in S : x <= y

FirstFit(h, asize) ==
    IF AdequateLists(h, asize) = {} THEN 0
    ELSE Bucket(h, Least(AdequateLists(h, asize)))
             [Least(Adequate(h, Least(AdequateLists(h, asize)), asize))]

C33_FirstFit ==
    [][(/\ ncalls' = ncalls + 1 /\ call'.op = "malloc" /\ call'.size > 0
        /\ heap_listp > 0)
       => /\ search_list(H, align_size(call'.size)).ret
                = FirstFit(H, align_size(call'.size))
          /\ FirstFit(H, align_size(call'.size)) # 0
                => /\ call'.ret = FirstFit(H, align_size(call'.size))
                   /\ call'.log = <<>>
                   /\ call'.splits # <<>>
                   /\ call'.splits[1].bp = call'.ret
                   /\ call'.splits[1].asize = align_size(call'.size)]_vars

\* the block malloc found by searching, in the heap as search_list saw it
Found == call.splits[1]

FoundBySearch ==
    /\ Serving /\ call.op = "malloc" /\ call.ret # 0 /\ call.log = <<>>
    /\ call.splits # <<>>

\* the hit is in a bucket above get_list(asize), whose own blocks are all
\* too small
C33_Witness ==
    /\ FoundBySearch
    /\ Bucket(Found.pre, get_list(Found.asize)) # <<>>
    /\ Found.bp \notin Range(Bucket(Found.pre, get_list(Found.asize)))

\* the hit is behind a block of its bucket that is too small
C33_Later ==
    /\ FoundBySearch
    /\ \E list \in Lists :
          /\ Found.bp \in Range(Bucket(Found.pre, list))
          /\ Found.bp # Bucket(Found.pre, list)[1]

\* the hit is followed by another adequate block
C33_Earlier ==
    /\ FoundBySearch
    /\ \E list \in Lists : \E j, k \in Adequate(Found.pre, list, Found.asize) :
          /\ j < k
          /\ Bucket(Found.pre, list)[j] = Found.bp

(***************************************************************************)
(* C40.  search_list never reads free_lists at an index outside            *)
(* 0..NUM_LISTS-1 while going from get_list(asize) through the top bucket: *)
(* no public call ends with an out-of-table read recorded.                 *)
(***************************************************************************)
C40_TableReads == call.oob = FALSE

\* a malloc whose search found nothing, grew the heap and returned a block
C40_FailedSearch ==
    /\ Serving /\ call.op = "malloc" /\ call.ret # 0
    /\ Len(call.log) = 1
    /\ call.oob

(***************************************************************************)
(* mm_init, malloc and free calls, the client writing to what it was       *)
(* given, with mm_checkheap called between them.                           *)
(***************************************************************************)
NextK ==
    \/ MmInit
    \/ \E n \in MallocSizes : Malloc(n)
    \/ \E i \in 1..Len(live) : Free(i)
    \/ \E i \in 1..Len(live) : Write(i)
    \/ CheckHeap

SpecK == Init /\ [][NextK]_vars

OperatedOn(i) == call'.op \in {"free", "realloc"} /\ call'.ptr = live[i].ptr

\* the bytes of live[i] that lie in the heap; a requested size of 2^64 - k
\* (written -k) reaches past the heap's end
Extent(i) ==
    IF live[i].size < 0 THEN WSIZE * Len(mem) - live[i].ptr ELSE live[i].size

C35_PayloadFrame ==
    [][ncalls' = ncalls + 1 =>
          \A i \in 1..Len(live) :
              ~OperatedOn(i) =>
                  SameBytes(mem, live[i].ptr, mem', live[i].ptr, Extent(i))]_vars

\* a realloc has moved a block by copying while another allocation, filled
\* by the client, was live
C35_ReallocMoved ==
    /\ Serving
    /\ call.op = "realloc" /\ call.ptr # 0 /\ call.ret # 0 /\ call.ret # call.ptr
    /\ call.copies # <<>>
    /\ \E i \in 1..Len(live) :
          /\ live[i].ptr # call.ret
          /\ live[i].size >= WSIZE
          /\ Word(mem, live[i].ptr) = Pattern(live[i].ptr, 0)

(***************************************************************************)
(* C36.  Every malloc, free and realloc call on a state reached through    *)
(* the public operations terminates: no call ends in a search that does    *)
(* not end, every bucket's chain from its head reaches LIST_END without    *)
(* visiting a block twice, and a search that finds nothing stops after the *)
(* top bucket.                                                             *)
(***************************************************************************)
\* the chain of bucket list ends, and no block is on it twice
Acyclic(h, list) ==
    /\ Cardinality(Range(Bucket(h, list))) = Len(Bucket(h, list))
    /\ Bucket(h, list) # <<>> =>
          GET_NEXT_FREE(h, Bucket(h, list)[Len(Bucket(h, list))]) = LIST_END

CallLengths == 1..(MaxCacheSize + 1)

NextCache ==
    \/ \E t \in Threads, id \in Ids : ClientJob(t, id)
    \/ \E t \in Threads : OpenReaderP(t)
    \/ \E t \in Threads : OpenReaderCount(t)
    \/ \E t \in Threads : OpenReaderV(t)
    \/ \E t \in Threads : SearchFirst(t)
    \/ \E t \in Threads : SearchWalk(t)
    \/ \E t \in Threads : SearchCopy(t)
    \/ \E t \in Threads : CloseReaderP(t)
    \/ \E t \in Threads : CloseReaderCount(t)
    \/ \E t \in Threads : CloseReaderV(t)
    \/ \E t \in Threads : SearchLock(t)
    \/ \E t \in Threads : SearchDelete(t)
    \/ \E t \in Threads : SearchAdd(t)
    \/ \E t \in Threads : SearchUnlock(t)
    \/ \E t \in Threads : Respond(t)
    \/ \E t \in Threads, length \in CallLengths : Forward(t, length)
    \/ \E t \in Threads : ForwardOnly(t)
    \/ \E t \in Threads : AddLock(t)
    \/ \E t \in Threads : AddEvict(t)
    \/ \E t \in Threads : AddAppend(t)
    \/ \E t \in Threads : AddUnlock(t)

SpecCache == InitProxy /\ [][NextCache]_vars

(***************************************************************************)
(* C37.  Cache space accounting: whenever no thread is inside a section    *)
(* guarded by the writer semaphore, space_left plus the lengths of the     *)
(* objects in the list is MAX_CACHE_SIZE; and space_left, an unsigned      *)
(* counter, is never taken below 0: the cached lengths never add up to     *)
(* more than MAX_CACHE_SIZE.                                               *)
(***************************************************************************)
RECURSIVE SumLengths(_, _)
SumLengths(c, list) ==
    IF list = <<>> THEN 0
    ELSE c.nodes[Head(list)].length + SumLengths(c, Tail(list))

C37_SpaceAccounting ==
    /\ cache.space_left >= 0
    /\ SumLengths(cache, CacheList(cache)) <= MaxCacheSize
    /\ Writers = {} =>
          cache.space_left + SumLengths(cache, CacheList(cache)) = MaxCacheSize

\* no thread is in a writer section, two objects fill the cache and an
\* object has been evicted for them
C37_Witness ==
    /\ Writers = {}
    /\ Len(CacheList(cache)) >= 2
    /\ cache.space_left = 0
    /\ \E n \in Objects : cache.nodes[n].state = "freed"

\* add_to_cache has returned -1 after evicting everything
C37_Refused ==
    \E t \in Threads :
        /\ At(t, "a_Vw") /\ threads[t].ret = -1
        /\ cache.first = 0 /\ cache.space_left = MaxCacheSize
        /\ \E n \in Objects : cache.nodes[n].state = "freed"

(***************************************************************************)
(* C38.  The cache list never holds two objects with the same id, also     *)
(* when two threads miss on one id in search_cache at the same time and    *)
(* both call add_to_cache for it afterwards.                               *)
(***************************************************************************)
C38_UniqueIds ==
    \A j, k \in 1..Len(CacheList(cache)) :
        cache.nodes[CacheList(cache)[j]].id = cache.nodes[CacheList(cache)[k]].id
            => j = k

\* two objects of one id are in the list and every call has returned
C38_Duplicate ==
    /\ \A t \in Threads : At(t, "idle")
    /\ \E j, k \in 1..Len(CacheList(cache)) :
          /\ j < k
          /\ cache.nodes[CacheList(cache)[j]].id = cache.nodes[CacheList(cache)[k]].id

(***************************************************************************)
(* The threads under a fair scheduler: a thread that is inside a call and  *)
(* whose next statement can be executed is eventually run.  The arrival of *)
(* a new request (ClientJob) is not forced.  A thread waiting in P is run  *)
(* when the semaphore stays available, which is all that sem_wait and the  *)
(* scheduler promise.                                                      *)
(***************************************************************************)
ThreadStep(t) ==
    \/ OpenReaderP(t) \/ OpenReaderCount(t) \/ OpenReaderV(t)
    \/ SearchFirst(t) \/ SearchWalk(t) \/ SearchCopy(t)
    \/ CloseReaderP(t) \/ CloseReaderCount(t) \/ CloseReaderV(t)
    \/ SearchLock(t) \/ SearchDelete(t) \/ SearchAdd(t) \/ SearchUnlock(t)
    \/ Respond(t) \/ ForwardOnly(t)
    \/ \E length \in CallLengths : Forward(t, length)
    \/ AddLock(t) \/ AddEvict(t) \/ AddAppend(t) \/ AddUnlock(t)

SpecCacheFair ==
    /\ InitProxy
    /\ [][NextCache]_vars
    /\ \A t \in Threads : WF_vars(ThreadStep(t))

(***************************************************************************)
(* C39.  With finitely many search_cache and add_to_cache calls per        *)
(* thread: no state is reached in which a thread is inside a call and no   *)
(* thread inside a call can take a step (no deadlock on r and w); once     *)
(* every call has returned readcnt is 0 and both semaphores are available, *)
(* whichever way the calls returned; and under fair scheduling every call  *)
(* returns.                                                                *)
(***************************************************************************)
Busy == {t \in Threads : ~At(t, "idle")}

NoDeadlock == Busy # {} => \E t \in Busy : ENABLED ThreadStep(t)

Released == Busy = {} => cache.readcnt = 0 /\ cache.r = 1 /\ cache.w = 1

C39_CallsReturn ==
    /\ [](NoDeadlock /\ Released)
    /\ \A t \in Threads : (~At(t, "idle")) ~> At(t, "idle")

\* every call has returned, among them a search whose second look-up
\* failed after a hit and an add_to_cache that evicted an object
C39_Witness ==
    /\ Busy = {}
    /\ \E t \in Threads : threads[t].copied /\ threads[t].ret = -1
    /\ \E n \in Objects : cache.nodes[n].state = "freed"
    /\ cache.readcnt = 0 /\ cache.r = 1 /\ cache.w = 1

\* a thread waits for the writer semaphore while another thread holds it
C39_Waiting ==
    \E t, u \in Threads :
        /\ threads[t].pc \in {"s_Pw", "a_Pw"} /\ cache.w = 0
        /\ u \in Writers

====
